---- MODULE Spec2Model ----
(***************************************************************************)
(* Faster Chromium: the content script's incremental optimization engine   *)
(* (content.js), modelled as a state machine over a small live document.   *)
(*                                                                         *)
(* A document is a sequence of body nodes (node identity = position) plus  *)
(* the sequence of elements the engine appended to <head>.  Every executor *)
(* of content.js is an operator from a world record                        *)
(*      [doc, head, m, ios]                                                *)
(* to a world record, written branch by branch from its source; the        *)
(* handlers (message listener, MutationObserver callback, idle callback,   *)
(* DOMContentLoaded / load listeners, one-shot load listeners,             *)
(* IntersectionObserver callback) are the actions.                         *)
(***************************************************************************)
EXTENDS Integers, Sequences, FiniteSets, TLC

VARIABLES
  settings,              \* content.js `settings`: NoSettings or a snapshot
  observer,              \* content.js `observer` is non-null (subscribed)
  optimizationsApplied,  \* the applied latch
  cleanupScheduled,      \* the batch-scheduled flag
  contextValid,          \* content.js `contextValid`
  runtime,               \* host: "ok", "gone" (chrome.runtime.id undefined), "throws"
  initPending,           \* the GET_SETTINGS request of init() is unanswered
  readyState,            \* document.readyState
  dclListener,           \* onDOMContentLoaded is registered on document
  loadListener,          \* onLoad is registered on window
  idlePending,           \* number of pending idle callbacks of scheduleCleanup
  doc,                   \* body nodes
  head,                  \* elements appended to <head> by the engine
  metrics,               \* performanceMetrics
  ios,                   \* IntersectionObservers created by prefetchVisibleLinks
  injected,              \* number of injected.js script tags appended so far
  page,                  \* the page's JavaScript context, patched by injected.js
  msgs,                  \* number of pushed messages handled so far
  step,                  \* number of applications made by a single-executor specification
  worker,                \* background.js: its variables, the storage area and the calls in flight
  hist                   \* history record used only by the properties

vars == << settings, observer, optimizationsApplied, cleanupScheduled, contextValid,
           runtime, initPending, readyState, dclListener, loadListener, idlePending,
           doc, head, metrics, ios, injected, page, msgs, step, worker, hist >>

----------------------------------------------------------------------------
(* Bounds of the model *)

\* largest number of body nodes the page inserts
MaxNodes == 2
\* largest number of pushed messages (SETTINGS_UPDATED, REFRESH_OPTIMIZATIONS)
MaxMsgs == 1
\* largest number of master-toggle flips of the toggle scenario
MaxFlips == 2
\* largest number of nodes of a page drawn for one full pass
MaxPassNodes == 2
\* largest number of cross-origin origins a drawn page references
MaxOrigins == 12
\* largest number of anchors of a drawn page
MaxAnchors == 3
\* largest value of performance.now() - startTime the host reports
MaxTime == 2

(* Program constants *)

\* setupDNSPrefetch: `if (count >= 10) break`
DNS_CAP == 10
\* prefetchVisibleLinks: MAX_PREFETCH
MAX_PREFETCH == 5

Absent == "absent"
\* `settings = null`: a record with no setting in it
NoSettings == [null |-> TRUE]
NoUrl == [origin |-> -1, proto |-> "none", path |-> "none", search |-> FALSE]

Markers == {"optimized", "stabilized", "cv", "media-opt", "nb"}

Min(a, b) == IF a < b THEN a ELSE b

RECURSIVE SeqFold(_, _, _)
\* left fold of Op over the sequence s, starting from acc
SeqFold(Op(_, _), acc, s) ==
  IF s = << >> THEN acc ELSE SeqFold(Op, Op(acc, Head(s)), Tail(s))

\* sequential composition: the result of running F on the value of W, which is
\* evaluated once
Then(W, F(_)) == CHOOSE r \in { F(x) : x \in {W} } : TRUE

----------------------------------------------------------------------------
(* Configuration snapshots *)

FeatureKeys == {"disableAnimations", "lazyLoadImages", "disableAutoplay", "throttleTimers",
                "prefetchDNS", "preloadLCP", "prefetchLinks", "optimizeImagePriority",
                "lazyLoadIframes", "reduceMediaPreload", "fontDisplaySwap",
                "contentVisibility", "stabilizeLayout", "nonBlockingCSS", "deferScripts",
                "passiveListeners"}

SettingKeys == FeatureKeys \cup {"enabled"}

\* every feature on, master switch on
SnapOn == [k \in SettingKeys |-> TRUE]
\* every feature on, master switch off
SnapOff == [SnapOn EXCEPT !["enabled"] = FALSE]
\* master switch on, every feature off
SnapBare == [k \in SettingKeys |-> k = "enabled"]
\* the defaults of background.js
DEFAULT_SETTINGS == [k \in SettingKeys |-> k \notin {"prefetchLinks", "deferScripts"}]

Snapshots == {SnapOn, SnapOff, SnapBare}

----------------------------------------------------------------------------
(* Nodes *)

\* a body node: its tag, its attributes (Absent = attribute missing), the
\* host's view of it (geometry, intrinsic size, loaded sheet) and the
\* one-shot listeners the engine registered on it
Node(tag) ==
  [tag |-> tag, wrapped |-> FALSE,
   loading |-> Absent, decoding |-> Absent, fetchpriority |-> Absent,
   preload |-> Absent, autoplay |-> FALSE, paused |-> FALSE,
   width |-> Absent, height |-> Absent, aspect |-> FALSE,
   rel |-> Absent, media |-> Absent, media0 |-> Absent, url |-> NoUrl,
   marks |-> {},
   natural |-> FALSE, inView |-> FALSE, onScreen |-> FALSE, below |-> FALSE, area |-> 0,
   loaded |-> FALSE, sheet |-> FALSE, fontDisplay |-> Absent,
   loadCbs |-> 0, nbCbs |-> 0]

Url(origin, proto, path, search) ==
  [origin |-> origin, proto |-> proto, path |-> path, search |-> search]

\* origin 0 is the page's own origin (location.origin); k > 0 is a foreign one
IsSameOrigin(u) == u.origin = 0

ImgLike(n) == n.tag = "IMG"
MediaLike(n) == n.tag \in {"VIDEO", "AUDIO"}

\* apply F to every body node (querySelectorAll(...).forEach over the document)
MapDoc(W, F(_)) == [W EXCEPT !.doc = [i \in DOMAIN W.doc |-> F(W.doc[i])]]

\* number of body nodes satisfying P
CountDoc(d, P(_)) == Cardinality({ i \in DOMAIN d : P(d[i]) })

Bump(m, key, k) == [m EXCEPT ![key] = @ + k]

\* document.getElementById(id) finds an engine style element
HasStyle(h, id) == \E i \in DOMAIN h : h[i].kind = id

AnimStyleId == "faster-chromium-disable-animations"
CvStyleId == "faster-chromium-content-visibility"

HeadEl(kind, url) == [kind |-> kind, url |-> url]

----------------------------------------------------------------------------
(* Pass executors of content.js.  S is the held settings snapshot, W the    *)
(* world; each returns the world after the executor has run to completion. *)

\* parseInt of a width/height attribute value
ParseInt(v) == CASE v = "0" -> 0 [] v = "1" -> 1 [] v = "300" -> 300 [] OTHER -> 0

\* setupLazyLoading: img:not([loading]) gets loading="lazy"
setupLazyLoading(S, W) ==
  IF ~S.lazyLoadImages THEN W
  ELSE MapDoc(W, LAMBDA n : IF ImgLike(n) /\ n.loading = Absent
                            THEN [n EXCEPT !.loading = "lazy"] ELSE n)

\* mutant of LazyIframeTarget: tiny iframes are not skipped
LazyIframeTargetAnySize(n) == n.tag = "IFRAME" /\ n.loading = Absent

\* the iframes setupLazyLoadIframes gives the hint to
LazyIframeTarget(n) ==
  /\ n.tag = "IFRAME" /\ n.loading = Absent
  /\ ~(n.width # Absent /\ ParseInt(n.width) <= 1)
  /\ ~(n.height # Absent /\ ParseInt(n.height) <= 1)

setupLazyLoadIframes(S, W) ==
  IF ~S.lazyLoadIframes THEN W
  ELSE LET k == CountDoc(W.doc, LazyIframeTarget)
           W1 == MapDoc(W, LAMBDA n : IF LazyIframeTarget(n)
                                      THEN [n EXCEPT !.loading = "lazy"] ELSE n)
       IN [W1 EXCEPT !.m = Bump(@, "iframesLazyLoaded", k)]

\* disableAutoplay: video[autoplay], audio[autoplay] lose the attribute and are paused
disableAutoplay(S, W) ==
  IF ~S.disableAutoplay THEN W
  ELSE MapDoc(W, LAMBDA n : IF MediaLike(n) /\ n.autoplay
                            THEN [n EXCEPT !.autoplay = FALSE, !.paused = TRUE] ELSE n)

MediaUnclaimed(n) == MediaLike(n) /\ "media-opt" \notin n.marks
MediaDowngraded(n) == MediaUnclaimed(n) /\ n.preload \in {Absent, "", "auto"}

\* reduceMediaPreload: claim each video/audio once; downgrade unset or "auto" preload
reduceMediaPreload(S, W) ==
  IF ~S.reduceMediaPreload THEN W
  ELSE LET k == CountDoc(W.doc, MediaDowngraded)
           W1 == MapDoc(W, LAMBDA n :
                   IF MediaUnclaimed(n)
                   THEN [n EXCEPT !.marks = @ \cup {"media-opt"},
                                  !.preload = IF MediaDowngraded(n) THEN "metadata" ELSE @]
                   ELSE n)
       IN [W1 EXCEPT !.m = Bump(@, "mediaOptimized", k)]

\* mutant of ImgUnclaimed: the data-fc-optimized guard is missing
ImgNeverClaimed(n) == ImgLike(n)

\* the images optimizeImageLoading has not claimed yet
ImgUnclaimed(n) == ImgLike(n) /\ "optimized" \notin n.marks

\* optimizeImageLoading: claim each img once; decoding and fetchpriority only if unset
optimizeImageLoading(S, W) ==
  IF ~S.optimizeImagePriority THEN W
  ELSE LET k == CountDoc(W.doc, ImgUnclaimed)
           W1 == MapDoc(W, LAMBDA n :
                   IF ImgUnclaimed(n)
                   THEN [n EXCEPT !.marks = @ \cup {"optimized"},
                                  !.decoding = IF @ = Absent THEN "async" ELSE @,
                                  !.fetchpriority =
                                     IF @ # Absent THEN @
                                     ELSE IF n.inView THEN "high" ELSE "low"]
                   ELSE n)
       IN [W1 EXCEPT !.m = Bump(@, "imagesOptimized", k)]

\* the assignments both branches of stabilizeImageLayout make once the size is known
Stabilized(n) ==
  [n EXCEPT !.width = "nat", !.height = "nat", !.aspect = TRUE,
            !.marks = @ \cup {"stabilized"}]

\* mutant of stabilizeOne: the image is claimed at the visit, size known or not
stabilizeOneEager(n) ==
  IF ~(ImgLike(n) /\ "stabilized" \notin n.marks) THEN n
  ELSE IF n.width # Absent /\ n.height # Absent THEN n
  ELSE IF n.natural THEN Stabilized(n)
  ELSE [n EXCEPT !.loadCbs = @ + 1, !.marks = @ \cup {"stabilized"}]

\* stabilizeImageLayout on one img:not([data-fc-stabilized])
stabilizeOne(n) ==
  IF ~(ImgLike(n) /\ "stabilized" \notin n.marks) THEN n
  ELSE IF n.width # Absent /\ n.height # Absent THEN n
  ELSE IF n.natural THEN Stabilized(n)
  ELSE [n EXCEPT !.loadCbs = @ + 1]

stabilizeImageLayout(S, W) ==
  IF ~S.stabilizeLayout THEN W ELSE MapDoc(W, stabilizeOne)

\* injectFontDisplaySwap: @font-face rules of accessible (same-origin) sheets
injectFontDisplaySwap(S, W) ==
  IF ~S.fontDisplaySwap THEN W
  ELSE MapDoc(W, LAMBDA n :
         IF n.tag = "LINK" /\ n.sheet /\ IsSameOrigin(n.url) /\ n.fontDisplay # Absent
         THEN [n EXCEPT !.fontDisplay = "swap"] ELSE n)

CvCandidate(n) == n.tag = "SECTION" /\ n.below

\* mutant of injectContentVisibility: the getElementById guard is missing
injectContentVisibilityUnguarded(S, W) ==
  IF ~S.contentVisibility THEN W
  ELSE LET tagged == CountDoc(W.doc, CvCandidate)
           W1 == MapDoc(W, LAMBDA n : IF CvCandidate(n)
                                      THEN [n EXCEPT !.marks = @ \cup {"cv"}] ELSE n)
       IN IF tagged > 0
          THEN [W1 EXCEPT !.head = Append(@, HeadEl(CvStyleId, NoUrl))]
          ELSE W1

\* injectContentVisibility: one sweep, guarded by the presence of the style element
injectContentVisibility(S, W) ==
  IF ~S.contentVisibility THEN W
  ELSE IF HasStyle(W.head, CvStyleId) THEN W
  ELSE LET tagged == CountDoc(W.doc, CvCandidate)
           W1 == MapDoc(W, LAMBDA n : IF CvCandidate(n)
                                      THEN [n EXCEPT !.marks = @ \cup {"cv"}] ELSE n)
       IN IF tagged > 0
          THEN [W1 EXCEPT !.head = Append(@, HeadEl(CvStyleId, NoUrl))]
          ELSE W1

\* mutant of disableAnimations: the getElementById guard is missing
disableAnimationsUnguarded(S, W) ==
  IF ~S.disableAnimations THEN W
  ELSE [W EXCEPT !.head = Append(@, HeadEl(AnimStyleId, NoUrl)),
                 !.m = [@ EXCEPT !.animationsDisabled = 1]]

\* disableAnimations: singleton style element
disableAnimations(S, W) ==
  IF ~S.disableAnimations THEN W
  ELSE IF HasStyle(W.head, AnimStyleId) THEN W
  ELSE [W EXCEPT !.head = Append(@, HeadEl(AnimStyleId, NoUrl)),
                 !.m = [@ EXCEPT !.animationsDisabled = 1]]

\* the head without the first element of the given id (getElementById(id).remove())
RemoveFirst(h, id) ==
  IF ~HasStyle(h, id) THEN h
  ELSE LET i == CHOOSE j \in DOMAIN h :
                   h[j].kind = id /\ \A k \in 1..(j - 1) : h[k].kind # id
       IN SubSeq(h, 1, i - 1) \o SubSeq(h, i + 1, Len(h))

\* mutant of removeInjectedStyles: the teardown strips every data-fc-* marker
removeInjectedStylesAndMarkers(W) ==
  LET W1 == [W EXCEPT !.head = RemoveFirst(RemoveFirst(@, AnimStyleId), CvStyleId)]
  IN MapDoc(W1, LAMBDA n : [n EXCEPT !.marks = {}])

\* mutant of removeCvAttribute: the data-fc-cv attribute is left on the node
removeCvAttributeKept(n) == n

\* el.removeAttribute('data-fc-cv')
removeCvAttribute(n) == [n EXCEPT !.marks = @ \ {"cv"}]

\* removeInjectedStyles: both style ids, then every data-fc-cv attribute
removeInjectedStyles(W) ==
  LET W1 == [W EXCEPT !.head = RemoveFirst(RemoveFirst(@, AnimStyleId), CvStyleId)]
  IN MapDoc(W1, LAMBDA n : removeCvAttribute(n))

\* mutant of NbEligible: an already loaded stylesheet is not skipped
NbEligibleLoaded(S, n) ==
  /\ S.nonBlockingCSS
  /\ n.rel = "stylesheet" /\ n.url # NoUrl
  /\ "nb" \notin n.marks
  /\ ~(n.media \notin {Absent, ""} /\ n.media # "all")

\* the guards of handleNewStylesheet, in source order
NbEligible(S, n) ==
  /\ S.nonBlockingCSS
  /\ n.rel = "stylesheet" /\ n.url # NoUrl
  /\ "nb" \notin n.marks
  /\ ~n.sheet
  /\ ~(n.media \notin {Absent, ""} /\ n.media # "all")

\* handleNewStylesheet(link) on body node i
handleNewStylesheet(S, W, i) ==
  IF ~NbEligible(S, W.doc[i]) THEN W
  ELSE [W EXCEPT !.doc[i] = [@ EXCEPT !.marks = @ \cup {"nb"}, !.media = "print",
                                      !.nbCbs = @ + 1],
                 !.m = Bump(@, "cssNonBlocked", 1)]

----------------------------------------------------------------------------
(* DNS prefetch / preconnect hints *)

HeadLinkKinds == {"dns-prefetch", "preconnect", "preload", "prefetch"}

\* the URLs of the elements 'a[href], img[src], script[src], link[href]' selects,
\* in document order: the engine's links in <head>, then the body nodes
ReferencedUrls(W) ==
  LET hs == SelectSeq(W.head, LAMBDA e : e.kind \in HeadLinkKinds)
      ns == SelectSeq(W.doc, LAMBDA n : n.tag \in {"A", "IMG", "SCRIPT", "LINK"}
                                        /\ n.url # NoUrl)
  IN [i \in DOMAIN hs |-> hs[i].url] \o [i \in DOMAIN ns |-> ns[i].url]

\* new URL(url, location.href) succeeded, foreign origin, http(s) protocol
HintableUrl(u) == u.proto # "bad" /\ ~IsSameOrigin(u) /\ u.proto = "http"

\* origins.add(parsed.origin) over the selected elements: a Set keeps each origin
\* once, at the place of its first reference
CollectOrigins(W) ==
  LET refs == ReferencedUrls(W)
      first == SelectSeq([i \in DOMAIN refs |-> i],
                         LAMBDA i : /\ HintableUrl(refs[i])
                                    /\ \A j \in 1..(i - 1) :
                                         ~(HintableUrl(refs[j])
                                             /\ refs[j].origin = refs[i].origin))
  IN [k \in DOMAIN first |-> refs[first[k]].origin]

\* the href attribute of a hint link is the origin string itself
OriginUrl(o) == Url(o, "http", "", FALSE)

\* document.querySelector(`link[rel="dns-prefetch"][href="${origin}"]`)
HasDnsHint(W, o) ==
  \/ \E i \in DOMAIN W.head : W.head[i] = HeadEl("dns-prefetch", OriginUrl(o))
  \/ \E i \in DOMAIN W.doc : /\ W.doc[i].tag = "LINK" /\ W.doc[i].rel = "dns-prefetch"
                             /\ W.doc[i].url = OriginUrl(o)

\* mutant of DnsAccepted: the cap is tested with > instead of >=
DnsAcceptedOffByOne(W, origins) ==
  LET fresh == SelectSeq(origins, LAMBDA o : ~HasDnsHint(W, o))
  IN SubSeq(fresh, 1, Min(Len(fresh), DNS_CAP + 1))

\* `for (const origin of origins)`: the origins that get a hint pair, in order.
\* An origin that has a hint is skipped without counting (`continue`); the loop
\* ends at the first iteration that finds count >= 10 (`break`).  The origins are
\* distinct, so a pair appended for one does not change the test for another.
DnsAccepted(W, origins) ==
  LET fresh == SelectSeq(origins, LAMBDA o : ~HasDnsHint(W, o))
  IN SubSeq(fresh, 1, Min(Len(fresh), DNS_CAP))

\* the dns-prefetch and preconnect links appended for the accepted origins
HintPairs(accepted) ==
  [i \in 1..(2 * Len(accepted)) |->
     IF i % 2 = 1 THEN HeadEl("dns-prefetch", OriginUrl(accepted[(i + 1) \div 2]))
     ELSE HeadEl("preconnect", OriginUrl(accepted[i \div 2]))]

setupDNSPrefetch(S, W) ==
  IF ~S.prefetchDNS THEN W
  ELSE LET accepted == DnsAccepted(W, CollectOrigins(W))
       IN [W EXCEPT !.head = @ \o HintPairs(accepted),
                    !.m = Bump(@, "dnsPrefetched", Len(accepted))]

----------------------------------------------------------------------------
(* Hero image preload *)

\* preloadLCPCandidate: minimum on-screen area of the candidate
LCP_MIN_AREA == 5000

\* images.forEach: keep the first image of strictly largest on-screen area
LcpStep(acc, n) ==
  IF ImgLike(n) /\ n.url # NoUrl /\ n.onScreen /\ n.area > acc.area
  THEN [area |-> n.area, url |-> n.url] ELSE acc

HasPreload(W, u) ==
  \/ \E i \in DOMAIN W.head : W.head[i] = HeadEl("preload", u)
  \/ \E i \in DOMAIN W.doc : /\ W.doc[i].tag = "LINK" /\ W.doc[i].rel = "preload"
                             /\ W.doc[i].url = u

preloadLCPCandidate(S, W) ==
  IF ~S.preloadLCP THEN W
  ELSE LET best == SeqFold(LcpStep, [area |-> 0, url |-> NoUrl], W.doc)
       IN IF best.url # NoUrl /\ best.area > LCP_MIN_AREA /\ ~HasPreload(W, best.url)
          THEN [W EXCEPT !.head = Append(@, HeadEl("preload", best.url))]
          ELSE W

----------------------------------------------------------------------------
(* Link prefetch *)

\* location.pathname of the page
PagePath == "/"

StateWords == {"logout", "signout", "delete", "remove", "unsubscribe", "revoke"}

\* the path vocabulary of the model: the word the regular expression
\* /\/(logout|signout|delete|remove|unsubscribe|revoke)/i finds right after a
\* slash of the path, or Absent when it finds none
RegexHit(path) ==
  CASE path = "/logout" -> "logout"
    [] path = "/account/LogOut" -> "logout"
    [] path = "/deleted-items" -> "delete"
    [] path = "/api/revoke" -> "revoke"
    [] OTHER -> Absent

\* mutant of PrefetchExcluded: the url.search test is missing
PrefetchExcludedNoQuery(u) ==
  \/ ~IsSameOrigin(u)
  \/ u.path = PagePath
  \/ u.proto # "http"
  \/ RegexHit(u.path) \in StateWords

\* the exclusion filter of the intersection callback, in source order;
\* `new URL(href)` throwing is handled by the caller
PrefetchExcluded(u) ==
  \/ ~IsSameOrigin(u)
  \/ u.path = PagePath
  \/ u.proto # "http"
  \/ u.search
  \/ RegexHit(u.path) \in StateWords

IsAnchor(n) == n.tag = "A" /\ n.url # NoUrl

\* prefetchVisibleLinks: a fresh IntersectionObserver with its own `prefetched`
\* set, observing every a[href]; an observer with no target never calls back
\* and is not recorded
prefetchVisibleLinks(S, W) ==
  IF ~S.prefetchLinks THEN W
  ELSE LET targets == { i \in DOMAIN W.doc : IsAnchor(W.doc[i]) }
       IN IF targets = {} THEN W
          ELSE [W EXCEPT !.ios = Append(@, [observed |-> targets, prefetched |-> {},
                                            pend |-> << >>])]

\* the IntersectionObserver callback for one intersecting entry: target i of observer k
onIntersect(W, k, i) ==
  LET io == W.ios[k]
      u == W.doc[i].url
  IN IF Cardinality(io.prefetched) >= MAX_PREFETCH THEN W
     ELSE IF u \in io.prefetched THEN W
     ELSE IF u.proto = "bad"
          THEN [W EXCEPT !.ios[k].observed = @ \ {i}]
     ELSE IF PrefetchExcluded(u) THEN W
     ELSE [W EXCEPT !.ios[k].pend = Append(@, u), !.ios[k].observed = @ \ {i}]

\* the idle callback scheduled by the intersection callback: entry j of observer k
onPrefetchIdle(W, k, j) ==
  LET io == W.ios[k]
      u == io.pend[j]
      rest == SubSeq(io.pend, 1, j - 1) \o SubSeq(io.pend, j + 1, Len(io.pend))
  IN IF Cardinality(io.prefetched) >= MAX_PREFETCH
     THEN [W EXCEPT !.ios[k].pend = rest]
     ELSE [W EXCEPT !.ios[k].pend = rest, !.ios[k].prefetched = @ \cup {u},
                    !.head = Append(@, HeadEl("prefetch", u)),
                    !.m = Bump(@, "linksPrefetched", 1)]

----------------------------------------------------------------------------
(* injected.js: the patches installed in the page's own JavaScript context *)

\* minimum delays of the throttled timers
minInterval == 100
minTimeout == 10

\* the page's origin and the origin of another site
PageOrigin == 0
OtherOrigin == 1

\* a delay argument as page code passes it: undefined, NaN or a number
NoDelay == [kind |-> "undefined", ms |-> 0]
NaNDelay == [kind |-> "NaN", ms |-> 0]
Num(n) == [kind |-> "number", ms |-> n]

\* no timer call has been made yet
NoCall == [fn |-> "none", callback |-> 0, delay |-> NoDelay, args |-> << >>]

\* a script element as the page inserts it: the src attribute (form "none" =
\* missing, "rel" = relative reference, "abs" = absolute URL, "bad" = a
\* string that does not parse as a URL), the names of its other attributes,
\* its type attribute, its nonce, and whether it is attached to a parent
ScriptEl(src, attrs, type, nonce) ==
  [src |-> src, attrs |-> attrs, type |-> type, nonce |-> nonce, attached |-> TRUE]

NoSrc == [form |-> "none", origin |-> PageOrigin, path |-> ""]
NoScript == ScriptEl(NoSrc, {}, Absent, FALSE)

\* the page context before any injection: native timers and addEventListener,
\* no deferral observer; `asked` is the last timer call made by page code,
\* `call` what reached the native function and `callWraps` the number of
\* wrappers it went through; `script` is the last script the
\* page inserted, `scriptObs` the number of deferral observers that saw it,
\* `placed` the element standing in its place and `replaced` whether
\* replaceChild ran; `nodes` are the script elements created so far, each with
\* the node it is a deferred copy of (0: none) and the number of deferral
\* observers watching when it was inserted, and `pending` the mutation records not
\* yet handled, as (observer, node) pairs
InitPage ==
  [timerWraps |-> 0, listenerWraps |-> 0, deferObservers |-> 0,
   asked |-> NoCall, call |-> NoCall, callWraps |-> 0,
   scriptObs |-> 0, replaced |-> FALSE, script |-> NoScript, placed |-> NoScript,
   nodes |-> << >>, pending |-> {}]

\* the flag subset serialized into data-faster-chromium-settings
InjectedFlags(S) ==
  [throttleTimers |-> S.throttleTimers, passiveListeners |-> S.passiveListeners,
   deferScripts |-> S.deferScripts]

\* one run of injected.js with the parsed flags: each enabled section wraps the
\* function currently installed on window / EventTarget.prototype, or creates
\* one more observer
runInjected(pg, f) ==
  [pg EXCEPT !.timerWraps = IF f.throttleTimers THEN @ + 1 ELSE @,
             !.listenerWraps = IF f.passiveListeners THEN @ + 1 ELSE @,
             !.deferObservers = IF f.deferScripts THEN @ + 1 ELSE @]

\* `delay || 0`: undefined, NaN and 0 give 0
OrZero(delay) == IF delay.kind = "number" THEN delay.ms ELSE 0

\* mutant of minDelay: the smaller of the two
minDelayMin(delay, min) == IF OrZero(delay) >= min THEN min ELSE OrZero(delay)

\* Math.max(delay || 0, min)
minDelay(delay, min) == IF OrZero(delay) >= min THEN OrZero(delay) ELSE min

\* the minimum of each patched timer function
TimerMin(fn) == IF fn = "setInterval" THEN minInterval ELSE minTimeout

\* a call travelling through n stacked wrappers to the native function: each
\* wrapper forwards callback and arguments and replaces the delay
RECURSIVE throughWrappers(_, _)
throughWrappers(n, c) ==
  IF n = 0 THEN c
  ELSE throughWrappers(n - 1, [c EXCEPT !.delay = Num(minDelay(c.delay, TimerMin(c.fn)))])

\* page code calls window.setTimeout / window.setInterval
timerCall(pg, c) ==
  [pg EXCEPT !.asked = c, !.call = throughWrappers(pg.timerWraps, c),
             !.callWraps = pg.timerWraps]

\* the src property: the attribute resolved against the document's URL, the
\* raw attribute when it does not parse, "" when it is missing
srcProp(src) ==
  IF src.form = "rel" THEN [src EXCEPT !.form = "abs", !.origin = PageOrigin] ELSE src

\* mutant of deferrable: nonce and integrity are not looked at
deferrableAnyNonce(sc) ==
  /\ sc.src.form # "none"
  /\ "async" \notin sc.attrs /\ "defer" \notin sc.attrs /\ sc.type # "module"
  /\ "nomodule" \notin sc.attrs
  /\ srcProp(sc.src).form # "bad"
  /\ srcProp(sc.src).origin = PageOrigin

\* the filter of deferScript: TRUE when the element is to be replaced
deferrable(sc) ==
  /\ sc.src.form # "none"
  /\ "async" \notin sc.attrs /\ "defer" \notin sc.attrs /\ sc.type # "module"
  /\ "nomodule" \notin sc.attrs
  /\ ~sc.nonce /\ "integrity" \notin sc.attrs
  /\ srcProp(sc.src).form # "bad"
  /\ srcProp(sc.src).origin = PageOrigin

\* mutant of deferredCopy: the copy does not get the defer attribute
deferredCopyNoDefer(sc) ==
  [src |-> srcProp(sc.src), attrs |-> sc.attrs \ {"defer"},
   type |-> Absent, nonce |-> FALSE, attached |-> TRUE]

\* the element deferScript creates: src property assigned, defer set, every
\* attribute copied except src, defer and type
deferredCopy(sc) ==
  [src |-> srcProp(sc.src), attrs |-> (sc.attrs \ {"defer"}) \cup {"defer"},
   type |-> Absent, nonce |-> FALSE, attached |-> TRUE]

\* the deferral observers see an inserted script: the first callback replaces a
\* deferrable one; a later callback finds the original detached, and every
\* callback leaves the copy (it carries defer)
scriptInserted(pg, sc) ==
  LET swap == pg.deferObservers > 0 /\ deferrable(sc) /\ sc.attached
  IN [pg EXCEPT !.script = sc, !.scriptObs = pg.deferObservers, !.replaced = swap,
                !.placed = IF swap THEN deferredCopy(sc) ELSE sc]

\* the records of a childList mutation that added node id: one for every
\* deferral observer
addedRecords(pg, id) == { << k, id >> : k \in 1..pg.deferObservers }

\* the page (its parser or its code) inserts script element sc
scriptAdded(pg, sc) ==
  LET id == Len(pg.nodes) + 1
  IN [pg EXCEPT !.nodes = Append(@, [sc |-> sc, copyOf |-> 0,
                                     watchers |-> pg.deferObservers]),
                !.pending = @ \cup addedRecords(pg, id)]

\* one invocation of the callback of deferral observer k with the records of
\* the added nodes ids, oldest first.  deferScript returns at its filter, or
\* builds the copy and, when the node still has a parent, puts it in the
\* node's place; each replaceChild is a mutation every deferral observer gets
\* a record of, queued for its next invocation.  The nodes of a batch are
\* distinct, so replacing one does not change the test for another.
deferCallback(pg, k, ids) ==
  LET swapped == SelectSeq([i \in DOMAIN pg.nodes |-> i],
                           LAMBDA i : /\ i \in ids
                                      /\ deferrable(pg.nodes[i].sc)
                                      /\ pg.nodes[i].sc.attached)
      detached == [i \in DOMAIN pg.nodes |->
                     IF i \in ids /\ deferrable(pg.nodes[i].sc)
                     THEN [pg.nodes[i] EXCEPT !.sc.attached = FALSE]
                     ELSE pg.nodes[i]]
      copies == [j \in DOMAIN swapped |->
                   [sc |-> deferredCopy(pg.nodes[swapped[j]].sc),
                    copyOf |-> swapped[j], watchers |-> pg.deferObservers]]
      handled == { << k, id >> : id \in ids }
      queued == { << o, Len(pg.nodes) + j >> :
                    o \in 1..pg.deferObservers, j \in DOMAIN swapped }
  IN [pg EXCEPT !.nodes = detached \o copies,
                !.pending = (@ \ handled) \cup queued]

----------------------------------------------------------------------------
(* Core infrastructure of content.js.  A handler is an operator on the     *)
(* engine record st (the world fields plus the script's own variables);    *)
(* the host's runtime and readyState are read from the state.              *)

\* the script's variables and the world as one record
Engine ==
  [settings |-> settings, observer |-> observer, applied |-> optimizationsApplied,
   cleanupScheduled |-> cleanupScheduled, contextValid |-> contextValid,
   dclListener |-> dclListener, loadListener |-> loadListener,
   idlePending |-> idlePending, injected |-> injected, page |-> page,
   doc |-> doc, head |-> head, m |-> metrics, ios |-> ios]

\* isContextValid(): its result ...
ctxValid(st) == st.contextValid /\ runtime = "ok"

\* ... and its catch branch, taken when reading chrome.runtime throws
ctxChecked(st) ==
  IF st.contextValid /\ runtime = "throws"
  THEN [st EXCEPT !.contextValid = FALSE, !.observer = FALSE]
  ELSE st

\* mutant of scheduleCleanup: the cleanupScheduled guard is missing
scheduleCleanupUnguarded(st) ==
  IF ~ctxValid(st) THEN ctxChecked(st)
  ELSE [st EXCEPT !.cleanupScheduled = TRUE, !.idlePending = @ + 1]

\* scheduleCleanup: at most one idle callback is requested while the flag is set
scheduleCleanup(st) ==
  IF st.cleanupScheduled THEN st
  ELSE IF ~ctxValid(st) THEN ctxChecked(st)
  ELSE [st EXCEPT !.cleanupScheduled = TRUE, !.idlePending = @ + 1]

\* the six executors of the idle batch, in source order
cleanupBatch(st) ==
  LET S == st.settings
      s1 == Then(st, LAMBDA w : setupLazyLoading(S, w))
      s2 == Then(s1, LAMBDA w : setupLazyLoadIframes(S, w))
      s3 == Then(s2, LAMBDA w : optimizeImageLoading(S, w))
      s4 == Then(s3, LAMBDA w : disableAutoplay(S, w))
      s5 == Then(s4, LAMBDA w : reduceMediaPreload(S, w))
  IN Then(s5, LAMBDA w : stabilizeImageLayout(S, w))

\* mutant of runCleanup: the callback never resets cleanupScheduled
runCleanupStuck(st) ==
  LET s0 == [st EXCEPT !.idlePending = @ - 1]
  IN IF ~ctxValid(s0) THEN ctxChecked(s0) ELSE cleanupBatch(s0)

\* the idle callback of scheduleCleanup
runCleanup(st) ==
  LET s0 == [st EXCEPT !.cleanupScheduled = FALSE, !.idlePending = @ - 1]
  IN IF ~ctxValid(s0) THEN ctxChecked(s0) ELSE cleanupBatch(s0)

\* mutant of ObservedLinks: the querySelectorAll over the added subtree is missing
ObservedLinksShallow(st, i) ==
  LET n == st.doc[i]
  IN IF ~n.wrapped /\ n.tag = "LINK" THEN {i} ELSE {}

\* the stylesheet links the observer callback hands to handleNewStylesheet for the
\* added node i: the node itself when it is a LINK, and, for an added subtree,
\* the descendants matching link[rel="stylesheet"]
ObservedLinks(st, i) ==
  LET n == st.doc[i]
  IN IF ~n.wrapped THEN (IF n.tag = "LINK" THEN {i} ELSE {})
     ELSE (IF n.tag = "LINK" /\ n.rel = "stylesheet" THEN {i} ELSE {})

\* the MutationObserver callback for a batch that added body node i
onMutation(st, i) ==
  IF ~st.observer THEN st
  ELSE IF ~ctxValid(st) THEN ctxChecked(st)
  ELSE LET s1 == IF i \in ObservedLinks(st, i)
                 THEN handleNewStylesheet(st.settings, st, i) ELSE st
       IN scheduleCleanup(s1)

\* the MutationObserver callback for a batch in which the engine itself appended
\* elements to <head> (none of them a stylesheet link); `before` is the engine
\* record at the start of the turn
onOwnMutation(before, st) ==
  IF ~before.observer \/ Len(st.head) = Len(before.head) THEN st
  ELSE IF ~st.observer THEN st
  ELSE IF ~ctxValid(st) THEN ctxChecked(st)
  ELSE scheduleCleanup(st)

\* injectPageScript: one more injected.js script tag
injectPageScript(st) ==
  IF ~ctxValid(st) THEN ctxChecked(st)
  ELSE [st EXCEPT !.injected = @ + 1,
                  !.page = runInjected(@, InjectedFlags(st.settings))]

onDOMContentLoaded(st) ==
  LET S == st.settings
      s1 == Then(st, LAMBDA w : setupLazyLoading(S, w))
      s2 == Then(s1, LAMBDA w : setupLazyLoadIframes(S, w))
      s3 == Then(s2, LAMBDA w : disableAutoplay(S, w))
      s4 == Then(s3, LAMBDA w : reduceMediaPreload(S, w))
      s5 == Then(s4, LAMBDA w : optimizeImageLoading(S, w))
      s6 == Then(s5, LAMBDA w : setupDNSPrefetch(S, w))
      s7 == Then(s6, LAMBDA w : preloadLCPCandidate(S, w))
      s8 == Then(s7, LAMBDA w : injectFontDisplaySwap(S, w))
      s9 == Then(s8, LAMBDA w : injectContentVisibility(S, w))
  IN Then(s9, LAMBDA w : stabilizeImageLayout(S, w))

\* mutant of onLoad: the sample is taken on every run
onLoadOverwrites(st, t) ==
  LET S == st.settings
      s1 == [st EXCEPT !.m.loadTime = t]
  IN prefetchVisibleLinks(S, stabilizeImageLayout(S, s1))

\* onLoad; t is performance.now() - startTime at the load event
onLoad(st, t) ==
  LET S == st.settings
      s1 == IF st.m.loadTime = -1 THEN [st EXCEPT !.m.loadTime = t] ELSE st
  IN prefetchVisibleLinks(S, stabilizeImageLayout(S, s1))

\* mutant of applyOptimizations: the content-ready group is not deferred while
\* the document is loading
applyOptimizationsEager(st, t) ==
  IF st.applied \/ st.settings = NoSettings THEN st
  ELSE IF ~st.settings.enabled THEN st
  ELSE LET s1 == disableAnimations(st.settings,
                   injectPageScript([st EXCEPT !.applied = TRUE]))
           s2 == IF readyState = "loading"
                 THEN [onDOMContentLoaded(s1) EXCEPT !.loadListener = TRUE]
                 ELSE IF readyState = "interactive"
                 THEN [onDOMContentLoaded(s1) EXCEPT !.loadListener = TRUE]
                 ELSE onLoad(onDOMContentLoaded(s1), t)
       IN [s2 EXCEPT !.observer = TRUE]

\* applyOptimizations
applyOptimizations(st, t) ==
  IF st.applied \/ st.settings = NoSettings THEN st
  ELSE IF ~st.settings.enabled THEN st
  ELSE LET s1 == disableAnimations(st.settings,
                   injectPageScript([st EXCEPT !.applied = TRUE]))
           s2 == IF readyState = "loading"
                 THEN [s1 EXCEPT !.dclListener = TRUE, !.loadListener = TRUE]
                 ELSE IF readyState = "interactive"
                 THEN [onDOMContentLoaded(s1) EXCEPT !.loadListener = TRUE]
                 ELSE onLoad(onDOMContentLoaded(s1), t)
       IN [s2 EXCEPT !.observer = TRUE]

\* the SETTINGS_UPDATED branch of the message listener
onSettingsUpdated(st, snap, t) ==
  IF ~ctxValid(st) THEN ctxChecked(st)
  ELSE LET s1 == [st EXCEPT !.settings = snap, !.applied = FALSE]
       IN IF snap.enabled THEN applyOptimizations(s1, t)
          ELSE removeInjectedStyles([s1 EXCEPT !.observer = FALSE])

\* mutant of onRefresh: the latch is not reset before applyOptimizations
onRefreshKeepLatch(st, t) ==
  IF ~ctxValid(st) THEN ctxChecked(st)
  ELSE applyOptimizations(st, t)

\* the REFRESH_OPTIMIZATIONS branch of the message listener
onRefresh(st, t) ==
  IF ~ctxValid(st) THEN ctxChecked(st)
  ELSE applyOptimizations([st EXCEPT !.applied = FALSE], t)

\* the loadTime field of the GET_METRICS answer; t is performance.now() - startTime
metricsLoadTime(st, t) == IF st.m.loadTime # -1 THEN st.m.loadTime ELSE t

\* the response callback of init()
onInitResponse(st, snap, t) ==
  applyOptimizations([st EXCEPT !.settings = snap], t)

----------------------------------------------------------------------------
(* The page: the nodes it inserts *)

PageUrl(path) == Url(0, "http", path, FALSE)

WithMedia(n, v) == [n EXCEPT !.media = v, !.media0 = v]

\* an image still loading, on screen
ImgFresh == [Node("IMG") EXCEPT !.url = PageUrl("/hero.jpg"), !.inView = TRUE,
                                !.onScreen = TRUE, !.area = 6000]
\* a loaded image below the fold that states its own hints and one dimension
ImgPreset == [Node("IMG") EXCEPT !.url = Url(1, "http", "/a.png", FALSE), !.natural = TRUE,
                                 !.loaded = TRUE, !.loading = "eager",
                                 !.fetchpriority = "high", !.width = "300"]
\* a loaded image below the fold with no attribute
ImgPlain == [Node("IMG") EXCEPT !.url = PageUrl("/b.png"), !.natural = TRUE, !.loaded = TRUE]
VideoAuto == [Node("VIDEO") EXCEPT !.autoplay = TRUE, !.preload = "auto"]
AudioNone == [Node("AUDIO") EXCEPT !.preload = "none"]
IframeWide == [Node("IFRAME") EXCEPT !.width = "300", !.height = "300"]
IframePixel == [Node("IFRAME") EXCEPT !.width = "1", !.height = "1"]
SheetFresh == [Node("LINK") EXCEPT !.rel = "stylesheet", !.url = PageUrl("/site.css"),
                                   !.fontDisplay = "auto"]
SheetNested == [SheetFresh EXCEPT !.wrapped = TRUE]
SheetScreen == WithMedia(SheetFresh, "screen")
SectionBelow == [Node("SECTION") EXCEPT !.below = TRUE]
SectionAbove == Node("SECTION")

\* the nodes a page inserts while the script is running
Templates == {ImgFresh, VideoAuto, SheetFresh, SheetNested, SectionBelow}

----------------------------------------------------------------------------
(* background.js: the service worker's settings store *)

\* nothing stored under fasterChromiumSettings
NoStored == [stored |-> FALSE]

\* `{ ...DEFAULT_SETTINGS, ...s }`: the keys of s over the defaults
withDefaults(s) ==
  [k \in SettingKeys |-> IF k \in DOMAIN s THEN s[k] ELSE DEFAULT_SETTINGS[k]]

\* the worker after its script has run: currentSettings holds the defaults,
\* nothing is stored yet and the loadSettings() of the last top-level line is
\* in flight.  storage: the calls to chrome.storage.sync in flight, oldest
\* first; queries: the chrome.tabs.query calls of notifyAllTabs in flight, each
\* with the settings its saveSettings wrote; sent: the broadcasts made, each
\* as (settings written by the request, settings carried); requests: number of
\* messages received
InitWorker ==
  [currentSettings |-> DEFAULT_SETTINGS, stored |-> NoStored,
   storage |-> << [op |-> "get", val |-> NoStored] >>,
   queries |-> << >>, sent |-> {}, requests |-> 0]

\* loadSettings up to its await: chrome.storage.sync.get is called
loadSettings(w) ==
  [w EXCEPT !.storage = Append(@, [op |-> "get", val |-> NoStored])]

\* loadSettings after its await; result is the stored value
loadSettingsResumed(w, result) ==
  IF result # NoStored
  THEN [w EXCEPT !.currentSettings = withDefaults(result)]
  ELSE w

\* saveSettings up to its await: currentSettings is replaced and
\* chrome.storage.sync.set is called with it
saveSettings(w, s) ==
  LET cur == withDefaults(s)
  IN [w EXCEPT !.currentSettings = cur,
               !.storage = Append(@, [op |-> "set", val |-> cur])]

\* saveSettings after its await: notifyAllTabs() calls chrome.tabs.query;
\* wrote is the value this call of saveSettings handed to storage
saveSettingsResumed(w, wrote) ==
  [w EXCEPT !.queries = Append(@, wrote)]

\* the callback of chrome.tabs.query in notifyAllTabs: the message is built
\* from currentSettings when the callback runs
notifyAllTabs(w) ==
  [w EXCEPT !.sent = @ \cup {[wrote |-> Head(w.queries),
                              carried |-> w.currentSettings]},
            !.queries = Tail(@)]

\* the TOGGLE_ENABLED branch of onMessage
onToggleEnabled(w) ==
  LET w1 == [w EXCEPT !.currentSettings.enabled = ~@]
  IN saveSettings(w1, w1.currentSettings)

----------------------------------------------------------------------------
(* State machine of the content script *)

InitMetrics ==
  [animationsDisabled |-> 0, imagesOptimized |-> 0, iframesLazyLoaded |-> 0,
   mediaOptimized |-> 0, cssNonBlocked |-> 0, scriptsDeferred |-> 0,
   linksPrefetched |-> 0, dnsPrefetched |-> 0, loadTime |-> -1]

\* signals:   mutation batches with new elements accepted since the last idle
\*            callback fired (2 stands for two or more)
\* uncovered: a node was inserted under the watcher, with a valid context, and no
\*            idle batch has run its executors since
\* torn:      the last snapshot handled came by SETTINGS_UPDATED with enabled=false
\* flip:      1 after the master flag alone went true -> false, 2 after it alone
\*            went back to true; snap and arts are the body nodes and the style
\*            ids right before the first flip
\* refreshed: a REFRESH_OPTIMIZATIONS request has been handled while a snapshot
\*            with enabled=true was held and the latch was already set
\* reported:  the loadTime of the last GET_METRICS answer given after the sample
\*            was captured (-1: none yet)
\* late:      a load listener of handleNewStylesheet has run while the master
\*            flag was off or the host context was invalid
\* styles:    the style elements of <head> after the first of two full passes
\*            (snap then holds the body nodes after that pass)
InitHist == [signals |-> 0, uncovered |-> FALSE, torn |-> FALSE,
             flip |-> 0, snap |-> << >>, arts |-> {}, styles |-> << >>,
             refreshed |-> FALSE, reported |-> -1, late |-> FALSE]

\* the script's variables right after the IIFE has run and init() has sent GET_SETTINGS
InitEngine ==
  /\ settings = NoSettings
  /\ observer = FALSE
  /\ optimizationsApplied = FALSE
  /\ cleanupScheduled = FALSE
  /\ contextValid = TRUE
  /\ runtime = "ok"
  /\ initPending = TRUE
  /\ dclListener = FALSE
  /\ loadListener = FALSE
  /\ idlePending = 0
  /\ head = << >>
  /\ metrics = InitMetrics
  /\ ios = << >>
  /\ injected = 0
  /\ page = InitPage
  /\ msgs = 0
  /\ worker = InitWorker
  /\ step = 0
  /\ hist = InitHist

\* the content script runs at document_start: the document is still empty
Init ==
  /\ InitEngine
  /\ readyState = "loading"
  /\ doc = << >>

\* the engine record st becomes the next state
Commit(st) ==
  /\ settings' = st.settings
  /\ observer' = st.observer
  /\ optimizationsApplied' = st.applied
  /\ cleanupScheduled' = st.cleanupScheduled
  /\ contextValid' = st.contextValid
  /\ dclListener' = st.dclListener
  /\ loadListener' = st.loadListener
  /\ idlePending' = st.idlePending
  /\ injected' = st.injected
  /\ page' = st.page
  /\ doc' = st.doc
  /\ head' = st.head
  /\ metrics' = st.m
  /\ ios' = st.ios

StyleIds(h) == { id \in {AnimStyleId, CvStyleId} : HasStyle(h, id) }

Enabled(s) == s # NoSettings /\ s.enabled

\* one more accepted mutation signal when the turn scheduled or found a batch
Signalled(h, before, st) ==
  IF before.observer /\ ctxValid(before)
  THEN [h EXCEPT !.signals = Min(@ + 1, 2)] ELSE h

\* the answer to GET_SETTINGS arrives
InitResponse ==
  /\ initPending
  /\ \E snap \in Snapshots, t \in 1..MaxTime :
       \E st \in {onInitResponse(Engine, snap, t)} : Commit(st)
  /\ initPending' = FALSE
  /\ hist' = [hist EXCEPT !.torn = IF settings'.enabled THEN FALSE ELSE @,
                          !.flip = 0, !.snap = << >>, !.arts = {}]
  /\ UNCHANGED << runtime, readyState, msgs, worker, step >>

\* GET_SETTINGS fails: chrome.runtime.lastError is set, the callback returns
InitFail ==
  /\ initPending
  /\ initPending' = FALSE
  /\ UNCHANGED << settings, observer, optimizationsApplied, cleanupScheduled, contextValid,
                  runtime, readyState, dclListener, loadListener, idlePending,
                  doc, head, metrics, ios, injected, page, msgs, worker, step, hist >>

\* the history after a SETTINGS_UPDATED(snap) that the listener handled
HistAfterUpdate(snap) ==
  IF ~snap.enabled
  THEN IF Enabled(settings) /\ snap = [settings EXCEPT !["enabled"] = FALSE]
       THEN [hist EXCEPT !.torn = TRUE, !.flip = 1, !.snap = doc, !.arts = StyleIds(head)]
       ELSE [hist EXCEPT !.torn = TRUE, !.flip = 0, !.snap = << >>, !.arts = {}]
  ELSE IF hist.flip = 1 /\ snap = [settings EXCEPT !["enabled"] = TRUE]
       THEN [hist EXCEPT !.torn = FALSE, !.flip = 2]
       ELSE [hist EXCEPT !.torn = FALSE, !.flip = 0, !.snap = << >>, !.arts = {}]

\* the message listener receives SETTINGS_UPDATED with snapshot snap
Update(snap) ==
  /\ \E t \in 1..MaxTime : \E st \in {onSettingsUpdated(Engine, snap, t)} : Commit(st)
  /\ hist' = IF ctxValid(Engine) THEN HistAfterUpdate(snap) ELSE hist
  /\ msgs' = msgs + 1
  /\ UNCHANGED << runtime, initPending, readyState, step, worker >>

\* a SETTINGS_UPDATED broadcast arrives
SettingsUpdated ==
  /\ msgs < MaxMsgs
  /\ \E snap \in Snapshots : Update(snap)

\* a REFRESH_OPTIMIZATIONS request arrives
Refresh ==
  /\ msgs < MaxMsgs
  /\ \E t \in 1..MaxTime : \E st \in {onRefresh(Engine, t)} : Commit(st)
  /\ msgs' = msgs + 1
  /\ hist' = [hist EXCEPT !.refreshed = @ \/ (ctxValid(Engine) /\ Enabled(settings)
                                                 /\ optimizationsApplied)]
  /\ UNCHANGED << runtime, initPending, readyState, step, worker >>

\* the history after a turn in which the engine may have appended to <head>
HistOwn(st) ==
  IF Len(st.head) # Len(head) THEN Signalled(hist, Engine, st) ELSE hist

\* the document fires DOMContentLoaded
DOMContentLoaded ==
  /\ readyState = "loading"
  /\ readyState' = "interactive"
  /\ \E st \in {IF dclListener THEN onDOMContentLoaded(Engine) ELSE Engine} :
       /\ \E s2 \in {onOwnMutation(Engine, st)} : Commit(s2)
       /\ hist' = HistOwn(st)
  /\ UNCHANGED << runtime, initPending, msgs, worker, step >>

\* the window fires load
WindowLoad ==
  /\ readyState = "interactive"
  /\ readyState' = "complete"
  /\ \E t \in 1..MaxTime :
       \E st \in {IF loadListener THEN onLoad(Engine, t) ELSE Engine} :
          /\ \E s2 \in {onOwnMutation(Engine, st)} : Commit(s2)
          /\ hist' = HistOwn(st)
  /\ UNCHANGED << runtime, initPending, msgs, worker, step >>

\* the page (parser or script) inserts node n; the observer's callback runs in
\* the microtask that ends the inserting turn, before any other handler
InsertNode(n) ==
  /\ \E st \in {onMutation([Engine EXCEPT !.doc = Append(@, n)], Len(doc) + 1)} :
       Commit(st)
  /\ hist' = [Signalled(hist, Engine, Engine)
                EXCEPT !.uncovered = @ \/ (observer /\ ctxValid(Engine))]
  /\ UNCHANGED << runtime, initPending, readyState, msgs, worker, step >>

Insert ==
  /\ Len(doc) < MaxNodes
  /\ \E n \in Templates : InsertNode(n)

\* the host runs the idle callback (idle period or the 200 ms timeout)
IdleCallback ==
  /\ idlePending > 0
  /\ \E st \in {runCleanup(Engine)} : Commit(st)
  /\ hist' = [hist EXCEPT !.signals = 0,
                          !.uncovered = IF ctxValid(Engine) THEN FALSE ELSE @]
  /\ UNCHANGED << runtime, initPending, readyState, msgs, worker, step >>

\* the one-shot load listeners of stabilizeImageLayout on one image
imgLoadListeners(n) ==
  IF n.loadCbs > 0 /\ n.natural /\ "stabilized" \notin n.marks
  THEN [Stabilized(n) EXCEPT !.loadCbs = 0]
  ELSE [n EXCEPT !.loadCbs = 0]

\* an image finishes loading, with or without intrinsic dimensions
ImgLoad ==
  /\ \E i \in DOMAIN doc, dims \in BOOLEAN :
       /\ ImgLike(doc[i]) /\ ~doc[i].loaded
       /\ doc' = [doc EXCEPT ![i] = imgLoadListeners([@ EXCEPT !.loaded = TRUE,
                                                              !.natural = dims])]
  /\ UNCHANGED << settings, observer, optimizationsApplied, cleanupScheduled, contextValid,
                  runtime, initPending, readyState, dclListener, loadListener, idlePending,
                  head, metrics, ios, injected, page, msgs, worker, step, hist >>

\* mutant of sheetLoadListeners: the listener is not removed after it has run
sheetLoadListenersKept(n) ==
  IF n.nbCbs > 0 THEN [n EXCEPT !.media = "all"] ELSE n

\* the one-shot load listeners of handleNewStylesheet on one link
sheetLoadListeners(n) ==
  IF n.nbCbs > 0 THEN [n EXCEPT !.media = "all", !.nbCbs = 0] ELSE n

\* the stylesheet of link i finishes loading
SheetLoadAt(i) ==
  /\ i \in DOMAIN doc
  /\ doc[i].tag = "LINK" /\ doc[i].rel = "stylesheet" /\ ~doc[i].sheet
  /\ doc' = [doc EXCEPT ![i] = sheetLoadListeners([@ EXCEPT !.sheet = TRUE])]
  /\ UNCHANGED << settings, observer, optimizationsApplied, cleanupScheduled, contextValid,
                  runtime, initPending, readyState, dclListener, loadListener, idlePending,
                  head, metrics, ios, injected, page, msgs, worker, step >>
  /\ hist' = [hist EXCEPT !.late = @ \/ (doc[i].nbCbs > 0
                                        /\ (runtime # "ok" \/ ~Enabled(settings)))]

\* a stylesheet finishes loading
SheetLoad == \E i \in DOMAIN doc : SheetLoadAt(i)

\* the extension is reloaded or removed: the host context becomes invalid
Invalidate ==
  /\ runtime = "ok"
  /\ runtime' \in {"gone", "throws"}
  /\ UNCHANGED << settings, observer, optimizationsApplied, cleanupScheduled, contextValid,
                  initPending, readyState, dclListener, loadListener, idlePending,
                  doc, head, metrics, ios, injected, page, msgs, worker, step, hist >>

Next ==
  \/ InitResponse
  \/ InitFail
  \/ SettingsUpdated
  \/ Refresh
  \/ DOMContentLoaded
  \/ WindowLoad
  \/ Insert
  \/ IdleCallback
  \/ ImgLoad
  \/ SheetLoad
  \/ Invalidate

Spec == Init /\ [][Next]_vars

----------------------------------------------------------------------------
(* Properties of the engine under Spec *)

\* the attributes and inline style of a node that engine code writes
NodeAttrs(n) ==
  << n.loading, n.decoding, n.fetchpriority, n.preload, n.autoplay, n.paused,
     n.width, n.height, n.aspect, n.media, n.marks >>

\* no engine write in this step: the head is the same and every node that was in
\* the tree keeps its attributes
DocUntouched ==
  /\ head' = head
  /\ \A i \in DOMAIN doc : NodeAttrs(doc'[i]) = NodeAttrs(doc[i])

\* C2: while the held snapshot has enabled=false (and is not replaced), no engine
\* code path changes an attribute, a style or an element of the document.
C2_NoMutationWhileDisabled ==
  [][ (settings # NoSettings /\ ~settings.enabled /\ settings' = settings)
        => DocUntouched ]_vars

\* C3: after a SETTINGS_UPDATED with enabled=false has been handled, and until a
\* snapshot with enabled=true arrives, neither injected style element is in the
\* document.
C3_ArtifactsStayAbsent == hist.torn => StyleIds(head) = {}

\* C4: at most one idle batch is pending, the batch-scheduled flag is true exactly
\* when one idle callback is pending, and any number of mutation batches accepted
\* since the last idle callback ran stand for exactly one pending callback.
C4_OnePendingBatch ==
  /\ idlePending <= 1
  /\ cleanupScheduled <=> idlePending = 1
  /\ hist.signals > 0 <=> idlePending = 1

\* C4 witness: two or more mutation batches were coalesced into the one pending batch
C4_Witness == hist.signals = 2 /\ idlePending = 1 /\ cleanupScheduled

\* the node this step inserted is a stylesheet link that is not loaded and has no
\* targeted media restriction
FreshSheetInserted ==
  /\ Len(doc') = Len(doc) + 1
  /\ LET n == doc'[Len(doc')]
     IN /\ n.tag = "LINK" /\ n.rel = "stylesheet" /\ n.url # NoUrl
        /\ ~n.sheet
        /\ n.media0 \in {Absent, "", "all"}

Mitigated(n) == "nb" \in n.marks /\ n.media = "print"

\* C6 as stated: a fresh stylesheet link inserted (itself or inside a subtree)
\* while the watcher is subscribed and nonBlockingCSS is on carries data-fc-nb and
\* media=print when the turn that observed the insertion ends.
C6_Original ==
  [][ (FreshSheetInserted /\ observer /\ settings # NoSettings /\ settings.nonBlockingCSS)
        => Mitigated(doc'[Len(doc')]) ]_vars

\* C6 amended: the same, for insertions observed while the host context is valid.
C6_MitigatedInSameTurn ==
  [][ (FreshSheetInserted /\ observer /\ settings # NoSettings /\ settings.nonBlockingCSS
         /\ contextValid /\ runtime = "ok")
        => Mitigated(doc'[Len(doc')]) ]_vars

\* C6 witness: a link inserted inside a subtree has been mitigated and its
\* stylesheet is still loading
C6_Witness ==
  \E i \in DOMAIN doc : doc[i].wrapped /\ Mitigated(doc[i]) /\ ~doc[i].sheet /\ observer

\* C7 as stated: a marker, once set on a node, stays set in every later state.
C7_Original == [][ \A i \in DOMAIN doc : doc[i].marks \subseteq doc'[i].marks ]_vars

\* this step handled a SETTINGS_UPDATED whose snapshot has enabled=false
DisableHandled == \E snap \in Snapshots : ~snap.enabled /\ Update(snap)

\* C7 amended: data-fc-optimized, data-fc-stabilized, data-fc-media-opt and
\* data-fc-nb, once set, stay set in every later state; data-fc-cv stays set
\* except that handling a SETTINGS_UPDATED with enabled=false removes it.
C7_MarkersMonotone ==
  [][ \A i \in DOMAIN doc : \A K \in doc[i].marks :
        K \in doc'[i].marks \/ (K = "cv" /\ DisableHandled) ]_vars

\* C7 witness: claimed nodes have gone through a teardown and kept their markers
C7_Witness ==
  /\ hist.torn
  /\ \E i \in DOMAIN doc : doc[i].marks \cap {"optimized", "media-opt", "nb"} # {}

\* C12: when GET_SETTINGS fails with a connectivity error (and the host context
\* is valid), the engine goes on with the built-in defaults: it holds
\* DEFAULT_SETTINGS, the pass is applied and the watcher is subscribed.
C12_DefaultsOnFetchFailure ==
  [][ (InitFail /\ runtime = "ok")
        => (settings' = DEFAULT_SETTINGS /\ optimizationsApplied' /\ observer') ]_vars

\* a step in which engine code runs on behalf of the host: an incoming message, a
\* mutation batch delivered to the subscribed watcher, an idle batch
EngineInteraction == SettingsUpdated \/ Refresh \/ (observer /\ Insert) \/ IdleCallback

\* C13: once the host context is invalid (after the settings fetch has been
\* answered), the next engine interaction of any kind leaves the watcher
\* disconnected, and a disconnected watcher is never subscribed again.
C13_InvalidationTerminal ==
  [][ (runtime # "ok" /\ ~initPending) =>
        /\ EngineInteraction => ~observer'
        /\ ~observer => ~observer' ]_vars

\* what a run of applyOptimizations leaves behind in this step: the latch set,
\* one more page script, the watcher subscribed, the animation style present,
\* the phase listeners registered while the document is loading, and otherwise
\* every image claimed by the content-ready group
PassRan ==
  /\ optimizationsApplied' /\ observer'
  /\ injected' = injected + 1
  /\ settings'.disableAnimations => HasStyle(head', AnimStyleId)
  /\ readyState = "loading" => (dclListener' /\ loadListener')
  /\ (readyState # "loading" /\ settings'.optimizeImagePriority)
        => \A i \in DOMAIN doc' : ImgLike(doc'[i]) => "optimized" \in doc'[i].marks

\* this step handled a REFRESH_OPTIMIZATIONS request (the host context was valid)
RefreshHandled == Refresh /\ contextValid /\ runtime = "ok"

\* C14 as stated: in every state in which a REFRESH_OPTIMIZATIONS request is
\* handled (settings not yet received, enabled=false, latch already true), the
\* full pass runs again.
C14_Original == [][ RefreshHandled => PassRan ]_vars

\* C14 amended: a handled REFRESH_OPTIMIZATIONS request runs the full pass again,
\* whatever the latch, when a snapshot with enabled=true is held; with no snapshot
\* or enabled=false it only resets the latch and touches nothing.
C14_RefreshRerunsPass ==
  [][ RefreshHandled =>
        IF Enabled(settings) THEN PassRan
        ELSE ~optimizationsApplied' /\ DocUntouched /\ observer' = observer ]_vars

\* C14 witness: a refresh was handled with the latch already set, and the pass
\* ran again (a second page script was injected)
C14_Witness == hist.refreshed /\ injected = 2 /\ optimizationsApplied /\ observer

----------------------------------------------------------------------------
(* The full pass, run twice on a drawn document: the content-ready group    *)
(* (onDOMContentLoaded) followed by the idle-batch group.                   *)

\* a video an earlier pass claimed while autoplay suppression was off
VideoClaimed == [VideoAuto EXCEPT !.marks = {"media-opt"}]

\* the nodes of a drawn document
PassTemplates == {ImgFresh, ImgPreset, ImgPlain, VideoAuto, VideoClaimed, AudioNone,
                  IframeWide, IframePixel, SheetFresh, SheetScreen, SectionBelow,
                  SectionAbove}

\* the flags of the families of the full pass
PassFamilies == {"lazyLoadImages", "lazyLoadIframes", "disableAutoplay", "reduceMediaPreload",
                 "optimizeImagePriority", "stabilizeLayout", "contentVisibility"}

\* every configuration with enabled=true over the families of the pass
PassSnapshots ==
  { [k \in SettingKeys |-> IF k \in PassFamilies THEN k \in F ELSE TRUE] :
      F \in SUBSET PassFamilies }

PassDocs == UNION { [1..k -> PassTemplates] : k \in 0..MaxPassNodes }

\* the script's variables once a snapshot is held and applied, past DOMContentLoaded
HeldEngine(snap) ==
  /\ settings = snap
  /\ observer = FALSE
  /\ optimizationsApplied = TRUE
  /\ cleanupScheduled = FALSE
  /\ contextValid = TRUE
  /\ runtime = "ok"
  /\ initPending = FALSE
  /\ readyState = "interactive"
  /\ dclListener = FALSE
  /\ loadListener = FALSE
  /\ idlePending = 0
  /\ head = << >>
  /\ metrics = InitMetrics
  /\ ios = << >>
  /\ injected = 1
  /\ page = runInjected(InitPage, InjectedFlags(snap))
  /\ msgs = 0
  /\ worker = InitWorker
  /\ step = 0
  /\ hist = InitHist

InitPass ==
  /\ \E snap \in PassSnapshots : HeldEngine(snap)
  /\ doc \in PassDocs

\* the style elements of <head>, in document order
StyleEls(h) == SelectSeq(h, LAMBDA e : e.kind \in {AnimStyleId, CvStyleId})

\* the content-ready group of a full pass
PassContentReady ==
  /\ step \in {0, 2}
  /\ \E st \in {onDOMContentLoaded(Engine)} : Commit(st)
  /\ step' = step + 1
  /\ UNCHANGED << runtime, initPending, readyState, msgs, worker, hist >>

\* the idle-batch group of a full pass
PassIdleBatch ==
  /\ step \in {1, 3}
  /\ \E st \in {cleanupBatch(Engine)} : Commit(st)
  /\ step' = step + 1
  /\ hist' = IF step = 1 THEN [hist EXCEPT !.snap = doc', !.styles = StyleEls(head')]
             ELSE hist
  /\ UNCHANGED << runtime, initPending, readyState, msgs, worker >>

NextPass == PassContentReady \/ PassIdleBatch

SpecPass == InitPass /\ [][NextPass]_vars

\* C1: for every drawn document and every configuration with enabled=true, after
\* two full passes in succession every node has the attributes, inline style and
\* markers it had after the first full pass, and <head> holds the same style
\* elements.
C1_FullPassIdempotent ==
  step = 4 =>
    /\ Len(doc) = Len(hist.snap)
    /\ \A i \in DOMAIN doc : NodeAttrs(doc[i]) = NodeAttrs(hist.snap[i])
    /\ StyleEls(head) = hist.styles

\* C1 witness: the second pass is over on a page where the first pass claimed an
\* image and tagged a section
C1_Witness ==
  /\ step = 4
  /\ \E i \in DOMAIN doc : {"optimized", "stabilized"} \subseteq doc[i].marks
  /\ \E i \in DOMAIN doc : "cv" \in doc[i].marks
  /\ HasStyle(head, CvStyleId)

----------------------------------------------------------------------------
(* DNS-hint processing on a drawn page *)

\* the four element kinds 'a[href], img[src], script[src], link[href]' selects
RefTag(k) == CASE k % 4 = 1 -> "A" [] k % 4 = 2 -> "IMG" [] k % 4 = 3 -> "SCRIPT"
               [] OTHER -> "LINK"

\* an element referencing the foreign http(s) origin k
ForeignRef(k) == [Node(RefTag(k)) EXCEPT !.url = Url(k, "http", "/r", FALSE),
                                         !.rel = IF RefTag(k) = "LINK" THEN "icon" ELSE Absent]

ForeignRefs(n) == [k \in 1..n |-> ForeignRef(k)]

\* a link to another page of the site
SameOriginRef == [Node("A") EXCEPT !.url = PageUrl("/about")]
\* the extension's own script tag: a chrome-extension: URL
ExtensionRef == [Node("SCRIPT") EXCEPT !.url = Url(MaxOrigins + 1, "ext", "/injected.js", FALSE)]
\* an anchor whose href does not parse
MalformedRef == [Node("A") EXCEPT !.url = Url(-1, "bad", "//", FALSE)]
\* a second reference to the first foreign origin
RepeatedRef == [Node("IMG") EXCEPT !.url = Url(1, "http", "/again.png", FALSE)]
\* a hint the page itself ships for the first foreign origin
PageHint == [Node("LINK") EXCEPT !.rel = "dns-prefetch", !.url = Url(1, "http", "", FALSE)]

ExtraRefs == << SameOriginRef, ExtensionRef, MalformedRef, RepeatedRef, PageHint >>

InitDNS ==
  /\ \E snap \in {SnapOn, DEFAULT_SETTINGS} : HeldEngine(snap)
  /\ \E n \in 0..MaxOrigins, E \in SUBSET DOMAIN ExtraRefs, front \in BOOLEAN :
       LET extras == [j \in 1..Len(SelectSeq([x \in DOMAIN ExtraRefs |-> x],
                                             LAMBDA x : x \in E))
                        |-> ExtraRefs[SelectSeq([x \in DOMAIN ExtraRefs |-> x],
                                                LAMBDA x : x \in E)[j]]]
       IN doc = IF front THEN extras \o ForeignRefs(n) ELSE ForeignRefs(n) \o extras

\* one run of DNS-hint processing; a later full pass runs it again
RunDNSPrefetch ==
  /\ step < 2
  /\ \E st \in {setupDNSPrefetch(settings, Engine)} : Commit(st)
  /\ step' = step + 1
  /\ UNCHANGED << runtime, initPending, readyState, msgs, worker, hist >>

NextDNS == RunDNSPrefetch

SpecDNS == InitDNS /\ [][NextDNS]_vars

\* the distinct cross-origin http(s) origins the page references
CrossOrigins ==
  { doc[i].url.origin : i \in { j \in DOMAIN doc : /\ doc[j].tag \in {"A", "IMG", "SCRIPT", "LINK"}
                                                   /\ doc[j].url.proto = "http"
                                                   /\ doc[j].url.origin > 0 } }

\* the page ships no hint link of its own
NoPageHints == \A i \in DOMAIN doc : doc[i].rel \notin {"dns-prefetch", "preconnect"}

\* the origins that have a hint of the given kind in <head>
Hinted(kind) == { head[i].url.origin : i \in { j \in DOMAIN head : head[j].kind = kind } }

\* C9: for a page that references N distinct cross-origin http(s) origins and has
\* no hint link yet, one run of DNS-hint processing injects exactly one
\* dns-prefetch and one preconnect link for each of exactly min(N, 10) of those
\* origins, nothing else, and adds min(N, 10) to dnsPrefetched; no same-origin,
\* non-http or unparsable reference gets a hint.
C9_DnsHintsCapped ==
  (step = 1 /\ NoPageHints) =>
    LET N == Cardinality(CrossOrigins)
        k == IF N < 10 THEN N ELSE 10
    IN /\ Cardinality(Hinted("dns-prefetch")) = k
       /\ Hinted("preconnect") = Hinted("dns-prefetch")
       /\ Hinted("dns-prefetch") \subseteq CrossOrigins
       /\ Len(head) = 2 * k
       /\ \A i \in DOMAIN head : head[i].kind \in {"dns-prefetch", "preconnect"}
       /\ metrics.dnsPrefetched = k

\* C9 witness: a page with more than ten foreign origins, a same-origin, a
\* non-http and an unparsable reference has been processed once
C9_Witness ==
  /\ step = 1 /\ NoPageHints
  /\ Cardinality(CrossOrigins) > 10
  /\ \E i \in DOMAIN doc : doc[i] = SameOriginRef
  /\ \E i \in DOMAIN doc : doc[i] = ExtensionRef
  /\ \E i \in DOMAIN doc : doc[i] = MalformedRef
  /\ Len(head) > 0

----------------------------------------------------------------------------
(* Link prefetch on a drawn page *)

Anchor(u) == [Node("A") EXCEPT !.url = u]

LinkNext == Anchor(PageUrl("/next"))
LinkDocs == Anchor(PageUrl("/docs"))
\* href="/logout?token=x"
LinkLogoutToken == Anchor(Url(0, "http", "/logout", TRUE))
LinkForeign == Anchor(Url(1, "http", "/next", FALSE))
\* href="#top": the page's own path
LinkSelf == Anchor(PageUrl(PagePath))
\* a blob: URL of the page's origin
LinkBlob == Anchor(Url(0, "blob", "/uuid", FALSE))
LinkQuery == Anchor(Url(0, "http", "/page", TRUE))
LinkDeleted == Anchor(PageUrl("/deleted-items"))
LinkLogOut == Anchor(PageUrl("/account/LogOut"))
\* an href that `new URL(href)` rejects
LinkMalformed == Anchor(Url(-1, "bad", "//", FALSE))

AnchorTemplates == {LinkNext, LinkDocs, LinkLogoutToken, LinkForeign, LinkSelf, LinkBlob,
                    LinkQuery, LinkDeleted, LinkLogOut, LinkMalformed}

InitPrefetch ==
  /\ HeldEngine(SnapOn)
  /\ doc \in UNION { [1..k -> AnchorTemplates] : k \in 0..MaxAnchors }

\* onLoad runs prefetchVisibleLinks: first at the load phase, again when a
\* refresh or a new snapshot re-applies the optimizations on the loaded page
LoadPrefetch ==
  /\ step < 2
  /\ \E st \in {prefetchVisibleLinks(settings, Engine)} : Commit(st)
  /\ step' = step + 1
  /\ UNCHANGED << runtime, initPending, readyState, msgs, worker, hist >>

\* an observed anchor intersects the viewport
Intersect ==
  /\ \E k \in DOMAIN ios : \E i \in ios[k].observed :
       \E st \in {onIntersect(Engine, k, i)} : Commit(st)
  /\ UNCHANGED << runtime, initPending, readyState, msgs, worker, step, hist >>

\* the host runs one of the idle callbacks the intersection callback requested
PrefetchIdle ==
  /\ \E k \in DOMAIN ios : \E j \in DOMAIN ios[k].pend :
       \E st \in {onPrefetchIdle(Engine, k, j)} : Commit(st)
  /\ UNCHANGED << runtime, initPending, readyState, msgs, worker, step, hist >>

NextPrefetch == LoadPrefetch \/ Intersect \/ PrefetchIdle

SpecPrefetch == InitPrefetch /\ [][NextPrefetch]_vars

\* the paths of the page's links the state-changing pattern matches
StateChangingPaths == {"/logout", "/account/LogOut", "/deleted-items", "/api/revoke"}

\* a target the claim excludes: cross-origin, the page's own path, not http(s),
\* with a query string, or on a state-changing path
ExcludedTarget(u) ==
  \/ u.origin # 0
  \/ u.path = "/"
  \/ u.proto # "http"
  \/ u.search
  \/ u.path \in StateChangingPaths

\* C10: whatever the order of intersection events and idle callbacks, <head> never
\* holds a prefetch hint for the target of a link that is cross-origin, has the
\* page's own path, is not http(s), carries a query string or has a
\* state-changing path.
C10_ExcludedNeverPrefetched ==
  \A i \in DOMAIN doc : \A j \in DOMAIN head :
    (doc[i].tag = "A" /\ ExcludedTarget(doc[i].url))
      => ~(head[j].kind = "prefetch" /\ head[j].url = doc[i].url)

\* C10 witness: an eligible link has been prefetched, no idle callback is pending,
\* and /logout?token=x is still observed and has no hint
C10_Witness ==
  /\ \E j \in DOMAIN head : head[j].kind = "prefetch"
  /\ \E i \in DOMAIN doc : doc[i] = LinkLogoutToken
  /\ \E k \in DOMAIN ios : /\ ios[k].pend = << >>
                           /\ \E i \in ios[k].observed : doc[i] = LinkLogoutToken

\* the prefetch hints link prefetch has appended to <head>
PrefetchHints == SelectSeq(head, LAMBDA e : e.kind = "prefetch")

\* C11: in every reachable state at most five prefetch hints have been injected
\* and linksPrefetched is at most five, whatever the number of links, the
\* duplication of their hrefs, the order of intersection events and idle
\* callbacks, and the number of times the load phase ran.
C11_PrefetchCapped ==
  /\ Len(PrefetchHints) <= 5
  /\ metrics.linksPrefetched <= 5

----------------------------------------------------------------------------
(* The master toggle: SETTINGS_UPDATED messages that flip `enabled` alone *)

\* the popup flips the master switch: the broadcast snapshot is the held one with
\* `enabled` negated
Toggle ==
  /\ msgs < MaxFlips
  /\ settings # NoSettings
  /\ Update([settings EXCEPT !["enabled"] = ~@])

NextToggle ==
  \/ InitResponse
  \/ Toggle
  \/ DOMContentLoaded
  \/ WindowLoad
  \/ Insert
  \/ IdleCallback
  \/ ImgLoad
  \/ SheetLoad

SpecToggle == Init /\ [][NextToggle]_vars

\* a one-shot load callback, registered when the node was first processed, runs
LoadCallbackStep == ImgLoad \/ SheetLoad

\* the attributes the family of marker K writes on a node, and the marker itself
FamilyAttrs(K, n) ==
  CASE K = "optimized"  -> << n.decoding, n.fetchpriority, K \in n.marks >>
    [] K = "stabilized" -> << n.width, n.height, n.aspect, K \in n.marks >>
    [] K = "media-opt"  -> << n.preload, K \in n.marks >>
    [] K = "nb"         -> << n.media, K \in n.marks >>
    [] OTHER            -> << K \in n.marks >>

\* node i carried marker K right before the first flip
ClaimedBeforeFlip(i, K) == i \in DOMAIN hist'.snap /\ K \in hist'.snap[i].marks

\* the nodes not claimed for K before the first flip that get marker K in this step
NewlyMarked(K) ==
  { i \in DOMAIN doc' : /\ K \in doc'[i].marks
                        /\ i \in DOMAIN doc => K \notin doc[i].marks
                        /\ ~ClaimedBeforeFlip(i, K) }

\* the per-node counters grow in this step only by nodes that were not claimed
\* before the first flip
CountersOnlyForNew ==
  /\ metrics'.imagesOptimized - metrics.imagesOptimized
       = Cardinality(NewlyMarked("optimized"))
  /\ metrics'.cssNonBlocked - metrics.cssNonBlocked = Cardinality(NewlyMarked("nb"))
  /\ metrics'.mediaOptimized - metrics.mediaOptimized
       <= Cardinality(NewlyMarked("media-opt"))

\* in a pass after the second flip, no family in Keys processes again a node it
\* had claimed before the first flip
NotReprocessed(Keys) ==
  (hist'.flip = 2 /\ ~LoadCallbackStep) =>
     /\ \A i \in DOMAIN doc : \A K \in Keys :
          ClaimedBeforeFlip(i, K) => FamilyAttrs(K, doc'[i]) = FamilyAttrs(K, doc[i])
     /\ CountersOnlyForNew

\* C8 as stated: once the master toggle has gone true -> false -> true, no pass
\* processes again a node that was claimed (for any of the five markers) before
\* the first flip: the attributes of the claiming family do not change and no
\* counter is incremented for it; and the style elements present before the first
\* flip are present again.
C8_Original ==
  /\ [][NotReprocessed(Markers)]_vars
  /\ [](hist.flip = 2 => hist.arts \subseteq StyleIds(head))

\* C8 amended: the same for the claims data-fc-optimized, data-fc-stabilized,
\* data-fc-media-opt and data-fc-nb; data-fc-cv is removed by the first flip and
\* set again after the second.
C8_ToggleKeepsClaims ==
  /\ [][NotReprocessed(Markers \ {"cv"})]_vars
  /\ [](hist.flip = 2 => hist.arts \subseteq StyleIds(head))

\* C8 witness: after the second flip, on a page past DOMContentLoaded, a node
\* claimed before the first flip is in the tree and both style elements, present
\* before the first flip, are present
C8_Witness ==
  /\ hist.flip = 2
  /\ hist.arts = {AnimStyleId, CvStyleId}
  /\ StyleIds(head) = {AnimStyleId, CvStyleId}
  /\ \E i \in DOMAIN hist.snap : hist.snap[i].marks \cap {"optimized", "nb"} # {}

----------------------------------------------------------------------------
(* Liveness of the idle batch: the host eventually runs a requested idle    *)
(* callback (idle period, or the 200 ms timeout).                           *)

\* the steps around the idle batch: settings arrive and change, the page inserts
\* nodes and becomes ready, the host runs the idle callback or goes away
NextLive ==
  \/ InitResponse
  \/ SettingsUpdated
  \/ DOMContentLoaded
  \/ Insert
  \/ IdleCallback
  \/ Invalidate

LiveSpec == Init /\ [][NextLive]_vars /\ WF_vars(IdleCallback)

\* C5 as stated: every node inserted while the watcher is active and the host
\* context is valid is eventually covered by an idle batch that runs its executors
\* after the insertion, and the batch-scheduled flag eventually returns to false.
C5_Original ==
  /\ hist.uncovered ~> ~hist.uncovered
  /\ cleanupScheduled ~> ~cleanupScheduled

\* C5 amended: the same, unless the host context is invalidated before the batch
\* runs (the callback then clears the flag and runs no executor).
C5_EventuallyCovered ==
  /\ hist.uncovered ~> (~hist.uncovered \/ runtime # "ok")
  /\ cleanupScheduled ~> ~cleanupScheduled

\* C5 witness: an image inserted under the watcher before DOMContentLoaded has
\* been claimed by the idle batch, and no batch is pending
C5_Witness ==
  /\ readyState = "loading" /\ observer /\ runtime = "ok"
  /\ ~hist.uncovered /\ idlePending = 0 /\ ~cleanupScheduled
  /\ \E i \in DOMAIN doc : ImgLike(doc[i]) /\ "optimized" \in doc[i].marks

----------------------------------------------------------------------------
(* The load-time sample and GET_METRICS *)

\* the popup asks for the metrics; the listener answers when the context is valid
GetMetrics ==
  /\ \E st \in {ctxChecked(Engine)} : Commit(st)
  /\ \E t \in 1..MaxTime :
       hist' = IF ctxValid(Engine) /\ metrics.loadTime # -1
               THEN [hist EXCEPT !.reported = metricsLoadTime(Engine, t)]
               ELSE hist
  /\ UNCHANGED << runtime, initPending, readyState, msgs, worker, step >>

\* the page inserts a link to another page of the site
InsertLink ==
  /\ Len(doc) < MaxNodes
  /\ InsertNode(LinkNext)

NextMetrics ==
  \/ InitResponse
  \/ InsertLink
  \/ SettingsUpdated
  \/ Refresh
  \/ DOMContentLoaded
  \/ WindowLoad
  \/ GetMetrics
  \/ Invalidate

SpecMetrics == Init /\ [][NextMetrics]_vars

\* C15: once performanceMetrics.loadTime is non-null it never changes in a later
\* state, and every GET_METRICS answered after the capture reports that value.
C15_LoadTimeFrozen ==
  /\ [][ metrics.loadTime # -1 => metrics'.loadTime = metrics.loadTime ]_vars
  /\ [](hist.reported # -1 => hist.reported = metrics.loadTime)

\* C15 witness: the sample was captured at the load event, the load phase ran a
\* second time later (link prefetch has a second observer), and GET_METRICS was
\* answered after that
C15_Witness ==
  /\ metrics.loadTime = 1
  /\ Len(ios) = 2
  /\ hist.reported = 1

----------------------------------------------------------------------------
(* The page context under injected.js *)

MaxInjections == 2
MaxDelay == 150
MaxAttrs == 1

Booleans == {TRUE, FALSE}

FlagSets == [throttleTimers : Booleans, passiveListeners : Booleans, deferScripts : Booleans]

Delays == {NoDelay, NaNDelay} \cup { Num(n) : n \in {-5, 0, 5, 10, 50, 100, MaxDelay} }

TimerCalls ==
  { [fn |-> fn, callback |-> 1, delay |-> d, args |-> a] :
      fn \in {"setTimeout", "setInterval"}, d \in Delays, a \in {<< >>, << 7 >>} }

\* no src; a relative reference; an absolute URL of the page's origin and one
\* of another origin; a string that is not a URL
SrcAttrs ==
  {NoSrc, [form |-> "rel", origin |-> OtherOrigin, path |-> "a.js"],
   [form |-> "bad", origin |-> PageOrigin, path |-> "http://["]} \cup
  { [form |-> "abs", origin |-> o, path |-> "/a.js"] : o \in {PageOrigin, OtherOrigin} }

ScriptAttrNames == {"async", "defer", "nomodule", "integrity", "id"}

Scripts ==
  { ScriptEl(src, attrs, type, nonce) :
      src \in SrcAttrs,
      attrs \in { A \in SUBSET ScriptAttrNames : Cardinality(A) <= MaxAttrs },
      type \in {Absent, "module", "text/plain"},
      nonce \in Booleans }

\* everything but the page context and the injection counter
engineVars == << settings, observer, optimizationsApplied, cleanupScheduled, contextValid,
                 runtime, initPending, readyState, dclListener, loadListener, idlePending,
                 doc, head, metrics, ios, msgs, worker, step, hist >>

\* an injected.js script tag appended by content.js runs with flags f
PageInject(f) ==
  /\ injected < MaxInjections
  /\ injected' = injected + 1
  /\ page' = runInjected(page, f)
  /\ UNCHANGED engineVars

Inject == \E f \in FlagSets : PageInject(f)

\* page code sets a timer
SetTimer ==
  /\ \E c \in TimerCalls : page' = timerCall(page, c)
  /\ UNCHANGED << engineVars, injected >>

\* the page (its parser or its code) inserts a script element
InsertScript ==
  /\ \E sc \in Scripts : page' = scriptInserted(page, sc)
  /\ UNCHANGED << engineVars, injected >>

NextTimers ==
  \/ Inject
  \/ SetTimer

SpecTimers == Init /\ [][NextTimers]_vars

NextScripts ==
  \/ Inject
  \/ InsertScript

SpecScripts == Init /\ [][NextScripts]_vars

\* C16: with the timer patch installed, the call that reaches the native timer
\* carries the delay max(requested or 0, minimum) -- 100 for setInterval, 10
\* for setTimeout -- so it is never below the minimum nor below the request,
\* and the same callback and extra arguments; an injection with throttleTimers
\* off installs no timer patch, and unpatched timers get the call as made.
C16_TimerThrottle ==
  /\ [](page.callWraps > 0 =>
          LET min == IF page.call.fn = "setInterval" THEN 100 ELSE 10
              req == IF page.asked.delay.kind = "number" THEN page.asked.delay.ms ELSE 0
          IN /\ page.call.delay.kind = "number"
             /\ page.call.delay.ms = (IF req >= min THEN req ELSE min)
             /\ page.call.delay.ms >= min
             /\ page.call.delay.ms >= req
             /\ page.call.fn = page.asked.fn
             /\ page.call.callback = page.asked.callback
             /\ page.call.args = page.asked.args)
  /\ [](page.callWraps = 0 => page.call = page.asked)
  /\ [][ \A f \in FlagSets : (~f.throttleTimers /\ PageInject(f)) =>
            page'.timerWraps = page.timerWraps ]_vars

\* C16 witness: a patched setInterval raised a delay of 5 to 100 and forwarded
\* the extra argument
C16_Witness ==
  /\ page.callWraps = 1
  /\ page.asked.fn = "setInterval" /\ page.asked.delay = Num(5) /\ page.asked.args = << 7 >>
  /\ page.call.delay = Num(100) /\ page.call.args = << 7 >>

\* the script may be deferred: it has a src that resolves to the page's origin
\* and none of async, defer, nomodule, type=module, nonce, integrity
Eligible(sc) ==
  /\ sc.src.form \in {"rel", "abs"}
  /\ sc.src.form = "abs" => sc.src.origin = PageOrigin
  /\ sc.attrs \cap {"async", "defer", "nomodule", "integrity"} = {}
  /\ sc.type # "module"
  /\ ~sc.nonce

\* C17: with a deferral observer installed, an inserted script is replaced only
\* if it is eligible; any other inserted script stays in place unchanged; and
\* the copy has defer, a src that resolves to the same URL, and every other
\* attribute of the original except type.
C17_DeferFilter ==
  page.scriptObs > 0 =>
    /\ page.replaced => Eligible(page.script)
    /\ ~Eligible(page.script) => ~page.replaced /\ page.placed = page.script
    /\ page.replaced =>
         /\ page.placed.src.form = "abs"
         /\ page.placed.src.origin = PageOrigin
         /\ page.placed.src.path = page.script.src.path
         /\ page.placed.attrs = page.script.attrs \cup {"defer"}
         /\ page.placed.type = Absent

\* C17 witness: a same-origin script given by a relative reference, with an id
\* and a type, was replaced by its deferred copy
C17_Witness ==
  /\ page.scriptObs > 0 /\ page.replaced
  /\ page.script.src.form = "rel" /\ page.script.attrs = {"id"}
  /\ page.script.type = "text/plain"
  /\ page.placed.attrs = {"id", "defer"} /\ page.placed.type = Absent

----------------------------------------------------------------------------
(* The page script across re-applications *)

\* C18: in every reachable state at most one injected.js script tag has been
\* appended, and each of the timer, listener and script-deferral patches has
\* been installed at most once (never on top of an earlier installation).
C18_InjectedOnce ==
  /\ injected <= 1
  /\ page.timerWraps <= 1
  /\ page.listenerWraps <= 1
  /\ page.deferObservers <= 1

----------------------------------------------------------------------------
(* Feature flags and deferred callbacks *)

\* the feature flag that gates the executor writing marker K
FlagOf(K) ==
  CASE K = "optimized"  -> "optimizeImagePriority"
    [] K = "stabilized" -> "stabilizeLayout"
    [] K = "cv"         -> "contentVisibility"
    [] K = "media-opt"  -> "reduceMediaPreload"
    [] K = "nb"         -> "nonBlockingCSS"

\* isEnabled(name) = enabled && snapshot[name]
isEnabled(S, name) == Enabled(S) /\ S[name]

\* this step writes an attribute of family K on a node of the tree (taking the
\* marker away, as the disable path does, is not counted)
WritesFamily(K) ==
  \E i \in DOMAIN doc :
     /\ FamilyAttrs(K, doc'[i]) # FamilyAttrs(K, doc[i])
     /\ ~(K \in doc[i].marks /\ K \notin doc'[i].marks)

\* C19: while a family's flag is false or absent in the held snapshot (before and
\* after the step), no step writes an attribute of that family on a node --
\* one-shot load callbacks registered while the flag was true included.
C19_OffFamilySilent ==
  [][ \A K \in Markers :
        (~isEnabled(settings, FlagOf(K)) /\ ~isEnabled(settings', FlagOf(K)))
           => ~WritesFamily(K) ]_vars

----------------------------------------------------------------------------
(* The engine after the host context has become invalid *)

\* C20: once the host context is invalid (and the settings answer is not
\* outstanding), no step of the engine writes to the document or schedules
\* work: the head and the attributes of every node stay as they are, no idle
\* callback is added, the batch flag is not raised and no intersection
\* observer is created -- whether the step is a message, a mutation batch, a
\* pending idle batch, a phase listener or a one-shot load callback.
C20_InvalidInert ==
  [][ (runtime # "ok" /\ ~initPending) =>
        /\ DocUntouched
        /\ idlePending' <= idlePending
        /\ cleanupScheduled' => cleanupScheduled
        /\ Len(ios') = Len(ios) ]_vars

----------------------------------------------------------------------------
(* Singleton style elements *)

\* the number of elements of the given id in the head
StyleCount(h, id) == Cardinality({ i \in DOMAIN h : h[i].kind = id })

\* the nodes carrying data-fc-cv
CvTagged(d) == { i \in DOMAIN d : "cv" \in d[i].marks }

\* C21: in every reachable state there is at most one element with id
\* faster-chromium-disable-animations and at most one with id
\* faster-chromium-content-visibility; and a step taken while such an element
\* is present, and which does not remove it, adds no element of that id, tags
\* no node for content-visibility and leaves the animation counter alone.
C21_StyleSingletons ==
  /\ [](StyleCount(head, AnimStyleId) <= 1 /\ StyleCount(head, CvStyleId) <= 1)
  /\ [][ (HasStyle(head, AnimStyleId) /\ HasStyle(head', AnimStyleId)) =>
            /\ StyleCount(head', AnimStyleId) = 1
            /\ metrics'.animationsDisabled = metrics.animationsDisabled ]_vars
  /\ [][ (HasStyle(head, CvStyleId) /\ HasStyle(head', CvStyleId)) =>
            /\ StyleCount(head', CvStyleId) = 1
            /\ CvTagged(doc') = CvTagged(doc) ]_vars

\* C21 witness: both style elements are present after a second pass has run,
\* and a candidate section inserted after the content-visibility style was
\* injected has been swept by an idle batch without being tagged
C21_Witness ==
  /\ StyleCount(head, AnimStyleId) = 1 /\ StyleCount(head, CvStyleId) = 1
  /\ injected = 2 /\ optimizationsApplied
  /\ idlePending = 0 /\ ~cleanupScheduled /\ runtime = "ok"
  /\ \E i, j \in DOMAIN doc :
        /\ CvCandidate(doc[i]) /\ "cv" \in doc[i].marks
        /\ CvCandidate(doc[j]) /\ "cv" \notin doc[j].marks

----------------------------------------------------------------------------
(* The Mutation Watcher subscription *)

\* a step in which the listener handled SETTINGS_UPDATED with enabled=false
DisabledByUpdate == \E snap \in Snapshots : ~snap.enabled /\ Update(snap)

\* a step that ran applyOptimizations past its guard
PassStarted == (InitResponse \/ SettingsUpdated \/ Refresh) /\ optimizationsApplied'

\* C22: the watcher is subscribed only while a snapshot with enabled=true is
\* held and the applied latch is true; it becomes subscribed only in a step in
\* which applyOptimizations starts a pass, and it is unsubscribed only by the
\* enabled=false branch of SETTINGS_UPDATED or when isContextValid detects the
\* invalidated host.
C22_WatcherLifecycle ==
  /\ [](observer => (Enabled(settings) /\ optimizationsApplied))
  /\ [][ (~observer /\ observer') => PassStarted ]_vars
  /\ [][ (observer /\ ~observer') => (DisabledByUpdate \/ (contextValid /\ ~contextValid')) ]_vars

----------------------------------------------------------------------------
(* handleNewStylesheet on one link *)

MaxHandles == 3

\* the link elements handed to handleNewStylesheet
SheetLinks ==
  { [WithMedia(Node("LINK"), media)
       EXCEPT !.rel = rel, !.url = url, !.marks = marks, !.sheet = sheet] :
      rel \in {Absent, "stylesheet", "preload"},
      url \in {NoUrl, PageUrl("/site.css")},
      marks \in {{}, {"nb"}},
      sheet \in BOOLEAN,
      media \in {Absent, "", "all", "print", "screen"} }

InitSheet ==
  /\ \E snap \in {SnapOn, SnapBare} : HeldEngine(snap)
  /\ doc \in { << l >> : l \in SheetLinks }

\* the observer callback hands the link to handleNewStylesheet (once more)
HandleSheet ==
  /\ step < MaxHandles
  /\ \E st \in {handleNewStylesheet(settings, Engine, 1)} : Commit(st)
  /\ step' = step + 1
  /\ UNCHANGED << runtime, initPending, readyState, msgs, worker, hist >>

NextSheet == HandleSheet \/ SheetLoad

SpecSheet == InitSheet /\ [][NextSheet]_vars

\* the link may be switched: rel=stylesheet, an href, no data-fc-nb, not loaded,
\* media empty or "all"
Switchable(n) ==
  /\ n.rel = "stylesheet" /\ n.url # NoUrl
  /\ "nb" \notin n.marks
  /\ ~n.sheet
  /\ n.media \in {Absent, "", "all"}

\* C23: a call of handleNewStylesheet switches the link's media to print only
\* if the link is switchable; for every other link the media, the markers and
\* cssNonBlocked are unchanged; a switch marks the link and counts it once, and
\* a link is switched and counted at most once over any number of calls.
C23_SwitchOnlyFresh ==
  /\ [][ HandleSheet =>
           LET n == doc[1]
               n2 == doc'[1]
               switched == n2.media = "print" /\ n.media # "print"
           IN /\ switched => Switchable(n)
              /\ ~Switchable(n) =>
                   /\ n2.media = n.media /\ n2.marks = n.marks
                   /\ metrics'.cssNonBlocked = metrics.cssNonBlocked
              /\ switched => ("nb" \in n2.marks
                              /\ metrics'.cssNonBlocked = metrics.cssNonBlocked + 1)
              /\ ~switched => metrics'.cssNonBlocked = metrics.cssNonBlocked ]_vars
  /\ [](metrics.cssNonBlocked <= 1)

\* C23 witness: three calls were made on a stylesheet that the first of them
\* switched; it is counted once, and it has loaded and been restored
C23_Witness ==
  /\ step = 3 /\ metrics.cssNonBlocked = 1
  /\ "nb" \in doc[1].marks /\ doc[1].sheet /\ doc[1].media = "all"

----------------------------------------------------------------------------
(* Restoring a mitigated stylesheet *)

\* the page inserts a stylesheet link that is still loading, with some media
InsertSheet ==
  /\ Len(doc) < MaxNodes
  /\ \E m \in {Absent, "", "all", "screen"} : InsertNode(WithMedia(SheetFresh, m))

NextRestore ==
  \/ InitResponse
  \/ InsertSheet
  \/ SettingsUpdated
  \/ SheetLoad
  \/ Invalidate

\* every stylesheet that is loading eventually fires its load event
RestoreSpec ==
  Init /\ [][NextRestore]_vars /\ \A i \in 1..MaxNodes : WF_vars(SheetLoadAt(i))

\* link i is switched and waits for its load event
AwaitsRestore(i) ==
  i \in DOMAIN doc /\ Mitigated(doc[i]) /\ doc[i].nbCbs > 0

\* after the restore nothing writes the media of a switched link again, and a
\* switched link has exactly one listener until the load event
RestoredOnce ==
  /\ [][ \A i \in DOMAIN doc :
           ("nb" \in doc[i].marks /\ doc[i].nbCbs = 0) => doc'[i].media = doc[i].media ]_vars
  /\ [](\A i \in DOMAIN doc : doc[i].nbCbs <= 1)

\* no switched link stays at media=print forever
NeverStuckAtPrint ==
  \A i \in 1..MaxNodes : AwaitsRestore(i) ~> (i \in DOMAIN doc /\ doc[i].media # "print")

\* C24 as stated: when the load event of a switched link fires, its media is
\* the value it had before the switch, the restore happens exactly once, and no
\* switched link stays at media=print forever, the master flag being turned off
\* or the host context invalidated in between included.
C24_Original ==
  /\ [][ \A i \in DOMAIN doc :
           (AwaitsRestore(i) /\ SheetLoadAt(i)) => doc'[i].media = doc[i].media0 ]_vars
  /\ RestoredOnce
  /\ NeverStuckAtPrint

\* C24 amended: the same, the media after the load event being "all", which
\* applies as the value before the switch did (no media attribute, empty or all).
C24_RestoredToAll ==
  /\ [][ \A i \in DOMAIN doc :
           (AwaitsRestore(i) /\ SheetLoadAt(i)) =>
              /\ doc'[i].media = "all"
              /\ doc[i].media0 \in {Absent, "", "all"}
              /\ doc'[i].nbCbs = 0 ]_vars
  /\ RestoredOnce
  /\ NeverStuckAtPrint

\* C24 witness: a link inserted without a media attribute was switched, the host
\* context was invalidated, and the load event has then set its media to all
C24_Witness ==
  /\ runtime # "ok" /\ hist.late
  /\ \E i \in DOMAIN doc :
       /\ "nb" \in doc[i].marks /\ doc[i].sheet /\ doc[i].nbCbs = 0
       /\ doc[i].media0 = Absent /\ doc[i].media = "all"

----------------------------------------------------------------------------
(* stabilizeImageLayout on one image *)

MaxVisits == 3

\* an image of the page: with or without width and height attributes; still
\* loading (intrinsic size unknown), loaded with an intrinsic size, or loaded
\* without one
StabImages ==
  { [Node("IMG") EXCEPT !.url = PageUrl("/b.png"), !.width = w, !.height = h,
                        !.loaded = ld[1], !.natural = ld[2]] :
      w \in {Absent, "300"}, h \in {Absent, "300"},
      ld \in { << FALSE, FALSE >>, << TRUE, TRUE >>, << TRUE, FALSE >> } }

InitStab ==
  /\ \E snap \in {SnapOn, SnapBare} : HeldEngine(snap)
  /\ doc \in { << n >> : n \in StabImages }

\* one more pass of stabilizeImageLayout over the document
StabPass ==
  /\ step < MaxVisits
  /\ \E st \in {stabilizeImageLayout(settings, Engine)} : Commit(st)
  /\ step' = step + 1
  /\ UNCHANGED << runtime, initPending, readyState, msgs, worker, hist >>

NextStab == StabPass \/ ImgLoad

SpecStab == InitStab /\ [][NextStab]_vars

\* the attributes of the layout-stabilization family on the image
StabAttrs(n) == << n.width, n.height, n.aspect, "stabilized" \in n.marks >>

\* a visit or a load callback that finds the intrinsic size known on an
\* unclaimed image it looks at
SizeKnownAtVisit ==
  \/ StabPass /\ settings.stabilizeLayout /\ doc[1].natural
  \/ ImgLoad /\ doc[1].loadCbs > 0 /\ doc'[1].natural

\* the marker is set only with the intrinsic size known; without it the
\* family's attributes stay; and a claimed image is not written again
ClaimedOnlyWhenKnown ==
  /\ [][ ("stabilized" \in doc'[1].marks /\ "stabilized" \notin doc[1].marks) =>
           /\ doc'[1].natural
           /\ doc'[1].width = "nat" /\ doc'[1].height = "nat" /\ doc'[1].aspect ]_vars
  /\ [][ ~doc'[1].natural => StabAttrs(doc'[1]) = StabAttrs(doc[1]) ]_vars
  /\ [][ "stabilized" \in doc[1].marks => StabAttrs(doc'[1]) = StabAttrs(doc[1]) ]_vars

\* C25 as stated: the marker is never set on an image whose intrinsic size is
\* unknown at that moment, such a visit leaves marker, width and height as they
\* are, and the image is claimed exactly once, at the first pass or load
\* callback at which its intrinsic size is known.
C25_Original ==
  /\ ClaimedOnlyWhenKnown
  /\ [][ (SizeKnownAtVisit /\ "stabilized" \notin doc[1].marks) =>
            "stabilized" \in doc'[1].marks ]_vars

\* C25 amended: the same, for images that do not already carry both a width
\* and a height attribute; those are skipped by every visit and never claimed.
C25_ClaimedWhenSizeKnown ==
  /\ ClaimedOnlyWhenKnown
  /\ [][ (SizeKnownAtVisit /\ "stabilized" \notin doc[1].marks) =>
            IF doc[1].width # Absent /\ doc[1].height # Absent
            THEN StabAttrs(doc'[1]) = StabAttrs(doc[1])
            ELSE "stabilized" \in doc'[1].marks ]_vars

\* C25 witness: an image without width and height was visited three times
\* while still loading; it is unclaimed, its attributes are as the page set
\* them, and the load callback is registered
C25_Witness ==
  /\ step = 3 /\ ~doc[1].loaded /\ ~doc[1].natural /\ doc[1].loadCbs > 0
  /\ StabAttrs(doc[1]) = << Absent, Absent, FALSE, FALSE >>

\* C26: at most one load-completion callback of layout stabilization is pending
\* on an image at any time, however many passes visit it while its intrinsic
\* size is unknown.
C26_OnePendingCallback == \A i \in DOMAIN doc : doc[i].loadCbs <= 1

----------------------------------------------------------------------------
(* optimizeImageLoading over a document of images *)

MaxImages == 2
MaxPrioPasses == 2

\* an image of the page: with or without decoding and fetchpriority; outside
\* the viewport's vertical extent, inside the viewport, or inside the vertical
\* extent but left or right of the viewport (inView is the test of
\* optimizeImageLoading on top and bottom, onScreen the four-sided test)
PrioImages ==
  { [Node("IMG") EXCEPT !.url = PageUrl("/b.png"), !.decoding = dec, !.fetchpriority = fp,
                        !.inView = pos[1], !.onScreen = pos[2]] :
      dec \in {Absent, "sync"}, fp \in {Absent, "low"},
      pos \in { << FALSE, FALSE >>, << TRUE, TRUE >>, << TRUE, FALSE >> } }

InitPrio ==
  /\ \E snap \in {SnapOn, SnapBare} : HeldEngine(snap)
  /\ doc \in UNION { [1..k -> PrioImages] : k \in 1..MaxImages }

\* one more pass of optimizeImageLoading over the document
PrioPass ==
  /\ step < MaxPrioPasses
  /\ \E st \in {optimizeImageLoading(settings, Engine)} : Commit(st)
  /\ step' = step + 1
  /\ UNCHANGED << runtime, initPending, readyState, msgs, worker, hist >>

NextPrio == PrioPass

SpecPrio == InitPrio /\ [][NextPrio]_vars

\* C27: after a pass of optimizeImageLoading with the feature on, every img
\* carries data-fc-optimized; an image that had no decoding has decoding=async;
\* an image that had no fetchpriority has high if its bounding box intersected
\* the viewport at the scan and low otherwise; values the page set are kept; an
\* image claimed before the pass is not modified; and imagesOptimized grows by
\* the number of images claimed in the pass.
C27_PriorityPass ==
  [][ (PrioPass /\ settings.optimizeImagePriority) =>
        /\ \A i \in DOMAIN doc :
             LET n == doc[i]
                 n2 == doc'[i]
             IN /\ "optimized" \in n2.marks
                /\ "optimized" \in n.marks => n2 = n
                /\ "optimized" \notin n.marks =>
                     /\ n2.decoding = (IF n.decoding = Absent THEN "async" ELSE n.decoding)
                     /\ n2.fetchpriority =
                          (IF n.fetchpriority # Absent THEN n.fetchpriority
                           ELSE IF n.onScreen THEN "high" ELSE "low")
        /\ metrics'.imagesOptimized = metrics.imagesOptimized
             + Cardinality({ i \in DOMAIN doc : "optimized" \notin doc[i].marks }) ]_vars

----------------------------------------------------------------------------
(* setupLazyLoading and setupLazyLoadIframes over a document *)

MaxFrames == 2
MaxLazyPasses == 2

\* iframes with or without width, height and loading attributes, and images
\* with or without a loading attribute
LazyNodes ==
  { [Node("IFRAME") EXCEPT !.width = w, !.height = h, !.loading = l] :
      w \in {Absent, "0", "1", "300"}, h \in {Absent, "0", "1", "300"},
      l \in {Absent, "eager"} }
  \cup { [Node("IMG") EXCEPT !.url = PageUrl("/b.png"), !.loading = l] :
           l \in {Absent, "eager"} }

InitLazy ==
  /\ \E snap \in {SnapOn, SnapBare} : HeldEngine(snap)
  /\ doc \in UNION { [1..k -> LazyNodes] : k \in 1..MaxFrames }

\* one more lazy-loading pass: images, then iframes
LazyPass ==
  /\ step < MaxLazyPasses
  /\ \E st \in {setupLazyLoadIframes(settings, setupLazyLoading(settings, Engine))} :
       Commit(st)
  /\ step' = step + 1
  /\ UNCHANGED << runtime, initPending, readyState, msgs, worker, hist >>

NextLazy == LazyPass

SpecLazy == InitLazy /\ [][NextLazy]_vars

\* the iframes that received the hint in this step
LazyHinted == { i \in DOMAIN doc : doc[i].tag = "IFRAME" /\ doc'[i].loading # doc[i].loading }

\* a lazy-loading pass with both features on: an iframe or image that has a
\* loading attribute is unchanged; an iframe without one gets loading=lazy
\* unless it is one of the exempt nodes E, and is unchanged when it is; iframesLazyLoaded
\* grows by the number of iframes that received the hint
LazyPassGives(E) ==
  (LazyPass /\ settings.lazyLoadIframes /\ settings.lazyLoadImages) =>
     /\ \A i \in DOMAIN doc :
          LET n == doc[i]
              n2 == doc'[i]
          IN /\ n.loading # Absent => n2 = n
             /\ (n.tag = "IFRAME" /\ n.loading = Absent) =>
                  IF i \in E THEN n2 = n ELSE n2 = [n EXCEPT !.loading = "lazy"]
     /\ metrics'.iframesLazyLoaded = metrics.iframesLazyLoaded + Cardinality(LazyHinted)

\* a 1x1-pixel iframe
OnePixel(n) == n.width = "1" /\ n.height = "1"

\* an iframe with a width or a height attribute that parses to 1 or less
TinyFrame(n) ==
  \/ n.width \in {"0", "1"}
  \/ n.height \in {"0", "1"}

----------------------------------------------------------------------------
(* The executors of the content-ready group, one at a time *)

MaxRuns == 2

\* the calls of onDOMContentLoaded, by name
ContentReadyExecutors ==
  {"setupLazyLoading", "setupLazyLoadIframes", "disableAutoplay", "reduceMediaPreload",
   "optimizeImageLoading", "setupDNSPrefetch", "preloadLCPCandidate",
   "injectFontDisplaySwap", "injectContentVisibility", "stabilizeImageLayout"}

\* one executor of the group applied to the world W under the held settings
RunExecutor(name, W) ==
  LET S == W.settings
  IN CASE name = "setupLazyLoading"        -> setupLazyLoading(S, W)
       [] name = "setupLazyLoadIframes"    -> setupLazyLoadIframes(S, W)
       [] name = "disableAutoplay"         -> disableAutoplay(S, W)
       [] name = "reduceMediaPreload"      -> reduceMediaPreload(S, W)
       [] name = "optimizeImageLoading"    -> optimizeImageLoading(S, W)
       [] name = "setupDNSPrefetch"        -> setupDNSPrefetch(S, W)
       [] name = "preloadLCPCandidate"     -> preloadLCPCandidate(S, W)
       [] name = "injectFontDisplaySwap"   -> injectFontDisplaySwap(S, W)
       [] name = "injectContentVisibility" -> injectContentVisibility(S, W)
       [] name = "stabilizeImageLayout"    -> stabilizeImageLayout(S, W)

\* the hero image: on screen, large, served from origin o
HeroImg(o) == [ImgFresh EXCEPT !.url = Url(o, "http", "/hero.jpg", FALSE)]

\* a page that references n foreign origins, then shows its hero image (from
\* its own origin or from one more foreign origin), a video, an iframe and a
\* section below the fold
InitCommute ==
  /\ HeldEngine(SnapOn)
  /\ \E n \in 0..MaxOrigins, own \in BOOLEAN :
       doc = ForeignRefs(n)
               \o << HeroImg(IF own THEN 0 ELSE n + 1), VideoAuto, IframeWide, SectionBelow >>

\* one executor of the group runs
RunOne ==
  /\ step < MaxRuns
  /\ \E name \in ContentReadyExecutors :
       \E st \in {RunExecutor(name, Engine)} : Commit(st)
  /\ step' = step + 1
  /\ UNCHANGED << runtime, initPending, readyState, msgs, worker, hist >>

NextCommute == RunOne

SpecCommute == InitCommute /\ [][NextCommute]_vars

\* the same document: the same body nodes, the same elements in <head>
\* (whatever their order) and the same counters
SameWorld(W1, W2) ==
  /\ W1.doc = W2.doc
  /\ Len(W1.head) = Len(W2.head)
  /\ { W1.head[i] : i \in DOMAIN W1.head } = { W2.head[i] : i \in DOMAIN W2.head }
  /\ W1.m = W2.m

\* C29: whenever an executor a of the content-ready group has run, running
\* any executor b of the group next gives the same final document and the
\* same counters as running b first and a second from the state before.
C29_ExecutorsCommute ==
  [][ \A a, b \in ContentReadyExecutors :
        (RunOne /\ Engine' = RunExecutor(a, Engine)) =>
           SameWorld(RunExecutor(b, Engine'),
                     RunExecutor(a, RunExecutor(b, Engine))) ]_vars

----------------------------------------------------------------------------
(* Content-visibility tagging and its style rule *)

\* C30: in every reachable state some node carries data-fc-cv exactly when
\* the style element faster-chromium-content-visibility is present; the style
\* element appears only in a step that leaves a tagged candidate, and a step
\* taken while the style element is present tags no further node.
C30_CvStyleIffTagged ==
  /\ [](CvTagged(doc) # {} <=> HasStyle(head, CvStyleId))
  /\ [][ HasStyle(head, CvStyleId) => CvTagged(doc') \subseteq CvTagged(doc) ]_vars

\* C30 witness: two passes have been started, the content-ready group has run,
\* the style element is present with a tagged candidate, and a second
\* candidate in the document is untagged
C30_Witness ==
  /\ HasStyle(head, CvStyleId) /\ settings.contentVisibility
  /\ injected = 2 /\ readyState # "loading" /\ idlePending = 0
  /\ \E i, j \in DOMAIN doc :
        /\ CvCandidate(doc[i]) /\ "cv" \in doc[i].marks
        /\ CvCandidate(doc[j]) /\ "cv" \notin doc[j].marks

----------------------------------------------------------------------------
(* Phase order of the executor groups *)

\* a step in which applyOptimizations ran past its guard
PassApplied ==
  \/ InitResponse /\ ~optimizationsApplied /\ optimizationsApplied'
  \/ (SettingsUpdated \/ Refresh) /\ ctxValid(Engine) /\ optimizationsApplied'

\* the kinds of the elements of <head>
KindsIn(h) == { h[i].kind : i \in DOMAIN h }

\* what only onDOMContentLoaded appends to <head>
ContentReadyKinds == {"dns-prefetch", "preconnect", "preload", CvStyleId}

\* C31: the groups run in phase order.  While the document is 'loading' no
\* effect of the content-ready group exists (no hint, preload or
\* content-visibility style in the head, no tagged node), and while it is
\* not 'complete' no effect of the fully-loaded group exists (no load time, no
\* prefetch observer).  A pass runs the immediate group (one more page-script
\* injection when the context is valid, the animation style when its flag is on)
\* and, when started while 'loading', registers both listeners and touches no
\* body node.  The DOMContentLoaded step then does exactly what one run of the
\* content-ready group does, and the load step exactly what one run of the
\* fully-loaded group does, however many passes were started before; without a
\* listener the events change neither the body nor the head.
C31_PhaseOrder ==
  /\ [](readyState = "loading" =>
          KindsIn(head) \cap ContentReadyKinds = {} /\ CvTagged(doc) = {})
  /\ [](readyState # "complete" => metrics.loadTime = -1 /\ ios = << >>)
  /\ [][ PassApplied =>
           /\ ctxValid(Engine) => injected' = injected + 1
           /\ settings'.disableAnimations => HasStyle(head', AnimStyleId)
           /\ readyState = "loading" =>
                dclListener' /\ loadListener' /\ doc' = doc ]_vars
  /\ [][ DOMContentLoaded =>
           IF dclListener THEN SameWorld(Engine', onDOMContentLoaded(Engine))
           ELSE doc' = doc /\ head' = head ]_vars
  /\ [][ WindowLoad =>
           IF loadListener
           THEN \E t \in 1..MaxTime : SameWorld(Engine', onLoad(Engine, t))
           ELSE doc' = doc /\ head' = head /\ metrics' = metrics ]_vars

\* C31 witness: two passes were started while the document was loading; the
\* content-ready group then ran at DOMContentLoaded and registered one load
\* listener on the image, and the fully-loaded group ran at load and registered
\* the second
C31_Witness ==
  /\ readyState = "complete" /\ injected = 2 /\ msgs = 1
  /\ dclListener /\ loadListener /\ metrics.loadTime # -1
  /\ \E i \in DOMAIN doc : doc[i].tag = "IMG" /\ doc[i].loadCbs = 2

----------------------------------------------------------------------------
(* DNS hints across passes *)

\* the number of links of the given kind in <head> for origin o
PairCount(kind, o) ==
  Cardinality({ i \in DOMAIN head : head[i] = HeadEl(kind, OriginUrl(o)) })

\* C32: after any number of runs of DNS-hint processing on one document the
\* engine has injected hint pairs for at most 10 distinct origins, and no
\* origin has more than one dns-prefetch and one preconnect link.
C32_HintsCappedAcrossPasses ==
  /\ Cardinality(Hinted("dns-prefetch")) <= DNS_CAP
  /\ \A o \in 1..(MaxOrigins + 1) :
       PairCount("dns-prefetch", o) <= 1 /\ PairCount("preconnect", o) <= 1

----------------------------------------------------------------------------
(* The service worker under concurrent requests *)

\* largest number of messages the worker receives
MaxRequests == 3

\* the settings objects a SAVE_SETTINGS message carries: full snapshots and a
\* partial object
SavePayloads == {SnapOff, SnapBare, [enabled |-> FALSE]}

workerFrame ==
  UNCHANGED << settings, observer, optimizationsApplied, cleanupScheduled,
               contextValid, runtime, initPending, readyState, dclListener,
               loadListener, idlePending, doc, head, metrics, ios, injected,
               page, msgs, step, hist >>

InitWorkerSpec == HeldEngine(SnapOn) /\ doc = << >>

Received(w) == [w EXCEPT !.requests = @ + 1]

\* onMessage: GET_SETTINGS
GetSettings ==
  /\ worker.requests < MaxRequests
  /\ worker' = Received(loadSettings(worker))
  /\ workerFrame

\* onMessage: SAVE_SETTINGS
SaveSettings ==
  /\ worker.requests < MaxRequests
  /\ \E s \in SavePayloads : worker' = Received(saveSettings(worker, s))
  /\ workerFrame

\* onMessage: TOGGLE_ENABLED
ToggleEnabled ==
  /\ worker.requests < MaxRequests
  /\ worker' = Received(onToggleEnabled(worker))
  /\ workerFrame

\* the oldest call to chrome.storage.sync completes and the function that
\* awaited it resumes
StorageDone ==
  /\ worker.storage # << >>
  /\ LET c == Head(worker.storage)
         w == [worker EXCEPT !.storage = Tail(@)]
     IN worker' = IF c.op = "get"
                  THEN loadSettingsResumed(w, w.stored)
                  ELSE saveSettingsResumed([w EXCEPT !.stored = c.val], c.val)
  /\ workerFrame

\* the oldest chrome.tabs.query completes and its callback broadcasts
TabsQueried ==
  /\ worker.queries # << >>
  /\ worker' = notifyAllTabs(worker)
  /\ workerFrame

NextWorker == GetSettings \/ SaveSettings \/ ToggleEnabled \/ StorageDone \/ TabsQueried

SpecWorker == InitWorkerSpec /\ [][NextWorker]_vars

\* every request has completed
WorkerQuiet ==
  /\ worker.requests > 0
  /\ worker.storage = << >> /\ worker.queries = << >>

\* C33: every SETTINGS_UPDATED broadcast carries exactly the settings its
\* SAVE_SETTINGS or TOGGLE_ENABLED request wrote to storage, and once every
\* request has completed the in-memory settings equal the persisted settings.
C33_BroadcastCarriesWritten ==
  /\ \A b \in worker.sent : b.carried = b.wrote
  /\ (WorkerQuiet /\ worker.stored # NoStored) =>
        worker.currentSettings = worker.stored

----------------------------------------------------------------------------
(* Script deferral, one mutation record at a time *)

\* largest number of script elements the page inserts
MaxScripts == 2

RelSrc == [form |-> "rel", origin |-> OtherOrigin, path |-> "a.js"]
OwnSrc == [form |-> "abs", origin |-> PageOrigin, path |-> "/a.js"]

\* a script deferScript replaces, one it replaces dropping the type, and one
\* it leaves in place
DeferScripts ==
  {ScriptEl(RelSrc, {}, Absent, FALSE), ScriptEl(OwnSrc, {"id"}, "text/plain", FALSE),
   ScriptEl(OwnSrc, {"async"}, Absent, FALSE)}

\* the page inserts a script element
AddScript ==
  /\ Cardinality({ i \in DOMAIN page.nodes : page.nodes[i].copyOf = 0 }) < MaxScripts
  /\ \E sc \in DeferScripts : page' = scriptAdded(page, sc)
  /\ UNCHANGED << engineVars, injected >>

\* the callback of a deferral observer runs with the records queued for it
DeferCallback ==
  /\ \E k \in { r[1] : r \in page.pending } :
       page' = deferCallback(page, k, { r[2] : r \in { q \in page.pending : q[1] = k } })
  /\ UNCHANGED << engineVars, injected >>

\* injected.js runs once more, with script deferral on or off and the other
\* two sections off
InjectDefer ==
  \E d \in Booleans :
     PageInject([throttleTimers |-> FALSE, passiveListeners |-> FALSE, deferScripts |-> d])

NextDefer ==
  \/ InjectDefer
  \/ AddScript
  \/ DeferCallback

\* a delivered mutation record is always handled: the callbacks run as microtasks
SpecDefer == Init /\ [][NextDefer]_vars /\ WF_vars(DeferCallback)

\* the deferred copies made of node i
CopiesOf(i) == { j \in DOMAIN page.nodes : page.nodes[j].copyOf = i }

\* C34: a deferred copy is never replaced and no node is replaced twice; once
\* no record is pending, every eligible script that was inserted under a
\* deferral observer has been replaced by exactly one copy, and every other
\* script and every copy stands where it was put; and the observers always
\* come to rest: a state with no pending record is reached again and again.
C34_DeferralTerminates ==
  /\ [](\A i \in DOMAIN page.nodes :
          /\ Cardinality(CopiesOf(i)) <= 1
          /\ page.nodes[i].copyOf # 0 => CopiesOf(i) = {} /\ page.nodes[i].sc.attached
          /\ page.nodes[i].sc.attached => CopiesOf(i) = {})
  /\ [](page.pending = {} =>
          \A i \in DOMAIN page.nodes :
             (page.nodes[i].copyOf = 0 /\ page.nodes[i].watchers > 0) =>
                IF Eligible(page.nodes[i].sc)
                THEN Cardinality(CopiesOf(i)) = 1 /\ ~page.nodes[i].sc.attached
                ELSE CopiesOf(i) = {} /\ page.nodes[i].sc.attached)
  /\ []<>(page.pending = {})

\* C34 witness: under two deferral observers two eligible scripts have each
\* been replaced by one copy, both observers have handled the records of the
\* originals and of the copies, and nothing is pending
C34_Witness ==
  /\ page.deferObservers = 2 /\ page.pending = {}
  /\ Len(page.nodes) = 4
  /\ \A i \in DOMAIN page.nodes :
        /\ page.nodes[i].watchers = 2
        /\ page.nodes[i].copyOf = 0 => Cardinality(CopiesOf(i)) = 1

====
